---- MODULE Spec2Model ----
(***************************************************************************)
(* A model of the rlox tree-walking interpreter (crafting-interpreters-rs): *)
(* the token stream, the recursive-descent parser, the resolver and the    *)
(* interpreter with its environment graph, drawn from src/src/*.rs.        *)
(*                                                                         *)
(* The pipeline stages are pure functions of their input and of the        *)
(* interpreter state, so each is an operator (RECURSIVE where the code     *)
(* recurses or loops) that threads the state it mutates; the drivers       *)
(* (src/bin/rlox.rs: run for a file, run_prompt for the prompt loop) are   *)
(* the state machines that apply them, and the scanner is also run on its  *)
(* own, one poll of the iterator per step.                                 *)
(*                                                                         *)
(* Every method of the parser, the resolver and the interpreter is a       *)
(* definition under its own name.  Where one method calls another, the     *)
(* call is written Parser_call("method", <<arguments>>) (Resolver_call,    *)
(* Interpreter_call), which looks the method up in the table that follows  *)
(* the methods and applies it.                                             *)
(***************************************************************************)
EXTENDS Integers, Sequences, FiniteSets, TLC

VARIABLES
    source,       \* the program run() was handed: its family and parameters
    tokens,       \* Parser.tokens: the token stream handed to Parser::new
    pc,           \* the driver's position in run(): parse, resolve, interpret, done
    statements,   \* the Vec<Stmt> parse() returned
    resolver,     \* the Resolver: scopes, current_function, current_class
    interp,       \* the Interpreter: environments, instances, environment, locals, writer
    idx,          \* Interpreter::interpret's position in statements
    ret,          \* Interpreter::interpret's `ret`: the value of the last statement
    outcome,      \* how run() ended: the Result of parse, resolve_stmts or interpret
    scanner       \* the Scanner, while the source is being scanned

vars == <<source, tokens, pc, statements, resolver, interp, idx, ret, outcome,
          scanner>>

(***************************************************************************)
(* Bounds of the model.                                                    *)
(***************************************************************************)
\* Nested expression() calls the parser may be in before the model reports
\* the recursion as unbounded (the build overflows its stack).
MaxParseDepth == 4
\* Iterations of one while loop before the model reports it as not ending.
MaxLoopIters == 6
\* Nested calls (LoxFunction::call and friends) the interpreter may be in.
MaxCallDepth == 6

(***************************************************************************)
(* Tokens (src/src/token.rs).                                              *)
(***************************************************************************)
TV_Nil == [k |-> "Nil"]
TV_String(s) == [k |-> "String", s |-> s]
TV_Number(n) == [k |-> "Number", n |-> n]
TV_Bool(b) == [k |-> "Bool", b |-> b]

\* Display for TokenValue: the text a name token is looked up by.
to_string(value) ==
    CASE value.k = "String" -> value.s
      [] value.k = "Nil" -> "nil"
      [] value.k = "Bool" -> IF value.b THEN "true" ELSE "false"
      [] value.k = "Number" -> ToString(value.n)

Token(id, value, line, column) ==
    [id |-> id, value |-> value, line |-> line, column |-> column]

\* The TokenIdentity of a fixed lexeme: the inverse of Display for Token.
IdOf(s) ==
    CASE s = "(" -> "LeftParen"   [] s = ")" -> "RightParen"
      [] s = "{" -> "LeftBrace"   [] s = "}" -> "RightBrace"
      [] s = ":" -> "Colon"       [] s = "," -> "Comma"
      [] s = "." -> "Dot"         [] s = "-" -> "Minus"
      [] s = "+" -> "Plus"        [] s = ";" -> "Semicolon"
      [] s = "/" -> "Slash"       [] s = "*" -> "Star"
      [] s = "?" -> "Question"    [] s = "!" -> "Bang"
      [] s = "!=" -> "BangEqual"  [] s = "=" -> "Equal"
      [] s = "==" -> "EqualEqual" [] s = ">" -> "Greater"
      [] s = ">=" -> "GreaterEqual" [] s = "<" -> "Less"
      [] s = "<=" -> "LessEqual"  [] s = "and" -> "And"
      [] s = "break" -> "Break"   [] s = "continue" -> "Continue"
      [] s = "class" -> "Class"   [] s = "else" -> "Else"
      [] s = "false" -> "False"   [] s = "fun" -> "Fun"
      [] s = "for" -> "For"       [] s = "if" -> "If"
      [] s = "nil" -> "Nil"       [] s = "or" -> "Or"
      [] s = "print" -> "Print"   [] s = "return" -> "Return"
      [] s = "super" -> "Super"   [] s = "this" -> "This"
      [] s = "true" -> "True"     [] s = "var" -> "Var"
      [] s = "while" -> "While"   [] s = "eof" -> "Eof"

\* Source lexemes, before the scanner has placed them: K a keyword or a
\* punctuation, I an identifier, S a string literal, N a number literal.
K(s) == [id |-> IdOf(s),
         value |-> CASE s \in {"this", "super"} -> TV_String(s)
                     [] s \in {"true", "false"} -> TV_Bool(s = "true")
                     [] OTHER -> TV_Nil]
I(s) == [id |-> "Identifier", value |-> TV_String(s)]
S(s) == [id |-> "String", value |-> TV_String(s)]
N(n) == [id |-> "Number", value |-> TV_Number(n)]

\* The token stream of a one-line source: every lexeme at its own column,
\* the Eof token last.
Tokenize(lexemes) ==
    [i \in 1..(Len(lexemes) + 1) |->
        IF i <= Len(lexemes)
        THEN Token(lexemes[i].id, lexemes[i].value, 1, i)
        ELSE Token("Eof", TV_Nil, 1, i)]

(***************************************************************************)
(* Runtime values (src/src/object.rs).                                     *)
(***************************************************************************)
Boolean(b) == [k |-> "Boolean", b |-> b]
Number(n) == [k |-> "Number", n |-> n]
String(s) == [k |-> "String", s |-> s]
Nil == [k |-> "Nil"]
Undefined == [k |-> "Undefined"]
None == [k |-> "None"]

(***************************************************************************)
(* The scanner (src/src/scanner.rs).  A source is a sequence of            *)
(* characters, each a one-character string; the text of a String or an     *)
(* Identifier token is the sequence of its characters, and an f64 is the   *)
(* decimal n / 10^e with n not a multiple of 10 unless e = 0.              *)
(***************************************************************************)
\* The characters of a fixed lexeme.
Chars(s) ==
    CASE s = "!=" -> <<"!", "=">>
      [] s = "==" -> <<"=", "=">>
      [] s = ">=" -> <<">", "=">>
      [] s = "<=" -> <<"<", "=">>
      [] s = "and" -> <<"a", "n", "d">>
      [] s = "break" -> <<"b", "r", "e", "a", "k">>
      [] s = "continue" -> <<"c", "o", "n", "t", "i", "n", "u", "e">>
      [] s = "class" -> <<"c", "l", "a", "s", "s">>
      [] s = "else" -> <<"e", "l", "s", "e">>
      [] s = "false" -> <<"f", "a", "l", "s", "e">>
      [] s = "for" -> <<"f", "o", "r">>
      [] s = "fun" -> <<"f", "u", "n">>
      [] s = "if" -> <<"i", "f">>
      [] s = "nil" -> <<"n", "i", "l">>
      [] s = "or" -> <<"o", "r">>
      [] s = "print" -> <<"p", "r", "i", "n", "t">>
      [] s = "return" -> <<"r", "e", "t", "u", "r", "n">>
      [] s = "super" -> <<"s", "u", "p", "e", "r">>
      [] s = "this" -> <<"t", "h", "i", "s">>
      [] s = "true" -> <<"t", "r", "u", "e">>
      [] s = "var" -> <<"v", "a", "r">>
      [] s = "while" -> <<"w", "h", "i", "l", "e">>
      [] s = "eof" -> <<"e", "o", "f">>
      [] s = "// Comment" ->
            <<"/", "/", " ", "C", "o", "m", "m", "e", "n", "t">>
      [] OTHER -> <<s>>

\* char::is_ascii_digit, char::is_numeric, char::is_alphabetic
Digits == {"0", "1", "2", "3", "4", "5", "6", "7", "8", "9"}
Numeric == Digits \cup {"²", "½"}
Alphabetic ==
    {"a", "b", "c", "d", "e", "f", "g", "h", "i", "j", "k", "l", "m", "n", "o",
     "p", "q", "r", "s", "t", "u", "v", "w", "x", "y", "z", "C", "é"}

DigitValue(c) ==
    CASE c = "0" -> 0 [] c = "1" -> 1 [] c = "2" -> 2 [] c = "3" -> 3
      [] c = "4" -> 4 [] c = "5" -> 5 [] c = "6" -> 6 [] c = "7" -> 7
      [] c = "8" -> 8 [] c = "9" -> 9

\* value.len(): the bytes of the UTF-8 text
utf8_len(c) == IF c \in {"²", "½", "é"} THEN 2 ELSE 1

RECURSIVE String_len(_)
String_len(value) ==
    IF value = <<>> THEN 0 ELSE utf8_len(Head(value)) + String_len(Tail(value))

\* while let Some(c) = self.chars.next_if(|c| ..): how many characters of
\* chars, from the first, are in set
RECURSIVE next_while(_, _)
next_while(chars, set) ==
    IF chars # <<>> /\ Head(chars) \in set THEN 1 + next_while(Tail(chars), set)
    ELSE 0

\* while .. next_if(|c| *c != stop): how many characters come before stop
RECURSIVE next_until(_, _)
next_until(chars, stop) ==
    IF chars # <<>> /\ Head(chars) # stop THEN 1 + next_until(Tail(chars), stop)
    ELSE 0

Drop(chars, n) == SubSeq(chars, n + 1, Len(chars))

\* <f64 as FromStr>::from_str on digits, digits '.', or digits '.' digits
RECURSIVE digits_value(_, _)
digits_value(chars, acc) ==
    IF chars = <<>> THEN acc
    ELSE digits_value(Tail(chars), 10 * acc + DigitValue(Head(chars)))

RECURSIVE normal_f64(_, _)
normal_f64(n, e) ==
    IF e > 0 /\ n % 10 = 0 THEN normal_f64(n \div 10, e - 1)
    ELSE [k |-> "Number", n |-> n, e |-> e]

parse_f64(value) ==
    LET whole == next_while(value, Digits)
        fraction == Len(value) - whole - 1
    IN
    IF \E i \in 1..Len(value) : value[i] \notin Digits \cup {"."} THEN None
    ELSE IF whole = Len(value) THEN normal_f64(digits_value(value, 0), 0)
    ELSE normal_f64(digits_value(SubSeq(value, 1, whole)
                                    \o SubSeq(value, whole + 2, Len(value)), 0),
                    fraction)

\* Display for f64
RECURSIVE digits_display(_)
digits_display(n) ==
    IF n < 10 THEN <<ToString(n)>>
    ELSE Append(digits_display(n \div 10), ToString(n % 10))

RECURSIVE fraction_display(_, _)
fraction_display(n, e) ==
    IF e = 0 THEN <<>>
    ELSE Append(fraction_display(n \div 10, e - 1), ToString(n % 10))

RECURSIVE pow10(_)
pow10(e) == IF e = 0 THEN 1 ELSE 10 * pow10(e - 1)

f64_display(v) ==
    IF v.e = 0 THEN digits_display(v.n)
    ELSE digits_display(v.n \div pow10(v.e)) \o <<".">>
            \o fraction_display(v.n % pow10(v.e), v.e)

Scanner_new(chars) ==
    [chars |-> chars, line |-> 1, column |-> 1, is_finish |-> FALSE]

Some(token, sc) == [k |-> "some", v |-> token, sc |-> sc]
Scanner_panic(message, sc) == [k |-> "panic", v |-> message, sc |-> sc]

Punctuation == {"(", ")", "{", "}", ",", ".", "-", "+", ";", "*", ":", "?"}
Keywords ==
    {"and", "break", "continue", "class", "else", "false", "for", "fun", "if",
     "nil", "or", "print", "return", "super", "this", "true", "var", "while"}

\* '!' | '=' | '<' | '>': one character, or two with a following '='
Scanner_operator(sc, c, rest) ==
    IF rest # <<>> /\ Head(rest) = "="
    THEN Some(Token(IdOf(c \o "="), TV_Nil, sc.line, sc.column),
              [sc EXCEPT !.chars = Tail(rest), !.column = @ + 2])
    ELSE Some(Token(IdOf(c), TV_Nil, sc.line, sc.column),
              [sc EXCEPT !.chars = rest, !.column = @ + 1])

\* '/': a comment up to the end of the line, or a Slash
Scanner_slash(sc, rest) ==
    IF rest # <<>> /\ Head(rest) = "/"
    THEN LET n == next_until(Tail(rest), "\n") IN
         Some(Token("Comment", TV_String(SubSeq(rest, 2, n + 1)), sc.line, sc.column),
              [sc EXCEPT !.chars = Drop(rest, n + 1), !.column = @ + 2])
    ELSE Some(Token("Slash", TV_Nil, sc.line, sc.column),
              [sc EXCEPT !.chars = rest, !.column = @ + 1])

\* '"': the text up to the closing quote
Scanner_string(sc, rest) ==
    LET n == next_until(rest, "\"")
        value == SubSeq(rest, 1, n)
    IN
    IF n = Len(rest)
    THEN Scanner_panic("Unterminated string literal",
                       [sc EXCEPT !.chars = <<>>, !.column = @ + 1])
    ELSE Some(Token("String", TV_String(value), sc.line, sc.column),
              [sc EXCEPT !.chars = Drop(rest, n + 1),
                         !.column = @ + 1 + String_len(value) + 1])

\* c.is_numeric(): the digits, a '.', and the digits after it when there
\* are any
Scanner_number(sc, c, rest) ==
    LET whole == next_while(rest, Digits)
        after == Drop(rest, whole)
        dot == after # <<>> /\ Head(after) = "."
        fraction == IF dot THEN next_while(Tail(after), Digits) ELSE 0
        taken == whole + (IF dot THEN 1 + fraction ELSE 0)
        value == <<c>> \o SubSeq(rest, 1, taken)
        number == parse_f64(value)
        next_sc == [sc EXCEPT !.chars = Drop(rest, taken),
                              !.column = @ + String_len(value)]
    IN
    IF number = None THEN Scanner_panic("Can't parse into a number", next_sc)
    ELSE Some(Token("Number", number, sc.line, sc.column), next_sc)

\* c.is_alphabetic(): a keyword or an Identifier
Scanner_identifier(sc, c, rest) ==
    LET n == next_while(rest, Alphabetic \cup {"_"})
        value == <<c>> \o SubSeq(rest, 1, n)
        next_sc == [sc EXCEPT !.chars = Drop(rest, n),
                              !.column = @ + String_len(value)]
    IN
    IF \E s \in Keywords : Chars(s) = value
    THEN LET s == CHOOSE s \in Keywords : Chars(s) = value IN
         Some(Token(IdOf(s),
                    CASE s \in {"this", "super"} -> TV_String(value)
                      [] s \in {"true", "false"} -> TV_Bool(s = "true")
                      [] OTHER -> TV_Nil,
                    sc.line, sc.column), next_sc)
    ELSE Some(Token("Identifier", TV_String(value), sc.line, sc.column), next_sc)

\* A scanner that forgets it has finished: the Eof token at every poll.
Scanner_end_again(sc) ==
    Some(Token("Eof", TV_Nil, sc.line, sc.column), [sc EXCEPT !.is_finish = TRUE])

\* None => ..: the Eof token once, nothing afterwards
Scanner_end(sc) ==
    IF ~sc.is_finish
    THEN Some(Token("Eof", TV_Nil, sc.line, sc.column), [sc EXCEPT !.is_finish = TRUE])
    ELSE [k |-> "none", v |-> None, sc |-> sc]

\* impl Iterator for Scanner: next
RECURSIVE Scanner_next(_)
Scanner_next(sc) ==
    IF sc.chars = <<>> THEN Scanner_end(sc)
    ELSE LET c == Head(sc.chars)
             rest == Tail(sc.chars)
         IN
         CASE c \in Punctuation ->
                Some(Token(IdOf(c), TV_Nil, sc.line, sc.column),
                     [sc EXCEPT !.chars = rest, !.column = @ + 1])
           [] c \in {"!", "=", "<", ">"} -> Scanner_operator(sc, c, rest)
           [] c = "/" -> Scanner_slash(sc, rest)
           [] c \in {" ", "\r", "\t"} ->
                Scanner_next([sc EXCEPT !.chars = rest, !.column = @ + 1])
           [] c = "\n" ->
                Scanner_next([sc EXCEPT !.chars = rest, !.line = @ + 1, !.column = 1])
           [] c = "\"" -> Scanner_string(sc, rest)
           [] c \in Numeric -> Scanner_number(sc, c, rest)
           [] c \in Alphabetic -> Scanner_identifier(sc, c, rest)
           [] OTHER -> Scanner_panic("Unexpected character",
                                     [sc EXCEPT !.chars = rest])

(***************************************************************************)
(* AST (src/src/expr.rs, src/src/stmt.rs): a node is a record tagged t.    *)
(***************************************************************************)
AssignExpr(name, value) == [t |-> "Assign", name |-> name, value |-> value]
BinaryExpr(left, operator, right) ==
    [t |-> "Binary", left |-> left, operator |-> operator, right |-> right]
CallExpr(callee, paren, arguments) ==
    [t |-> "Call", callee |-> callee, paren |-> paren, arguments |-> arguments]
GetExpr(object, name) == [t |-> "Get", object |-> object, name |-> name]
GroupingExpr(expression) == [t |-> "Grouping", expression |-> expression]
LambdaExpr(params, body) == [t |-> "Lambda", params |-> params, body |-> body]
LiteralExpr(value) == [t |-> "Literal", value |-> value]
LogicalExpr(left, operator, right) ==
    [t |-> "Logical", left |-> left, operator |-> operator, right |-> right]
SetExpr(object, name, value) ==
    [t |-> "Set", object |-> object, name |-> name, value |-> value]
SuperExpr(keyword, method) == [t |-> "Super", keyword |-> keyword, method |-> method]
ThisExpr(keyword) == [t |-> "This", keyword |-> keyword]
TernaryExpr(condition, then_branch, else_branch) ==
    [t |-> "Ternary", condition |-> condition, then_branch |-> then_branch,
     else_branch |-> else_branch]
UnaryExpr(operator, right) == [t |-> "Unary", operator |-> operator, right |-> right]
VariableExpr(name) == [t |-> "Variable", name |-> name]

BlockStmt(stmts) == [t |-> "Block", statements |-> stmts]
BreakStmt == [t |-> "Break"]
ContinueStmt == [t |-> "Continue"]
ClassStmt(name, superclass, methods, static_methods, getter_methods) ==
    [t |-> "Class", name |-> name, superclass |-> superclass, methods |-> methods,
     static_methods |-> static_methods, getter_methods |-> getter_methods]
ExpressionStmt(expr) == [t |-> "Expression", expr |-> expr]
FunctionStmt(name, params, body, kind) ==
    [t |-> "Function", name |-> name, params |-> params, body |-> body, kind |-> kind]
IfStmt(condition, then_branch, else_branch) ==
    [t |-> "If", condition |-> condition, then_branch |-> then_branch,
     else_branch |-> else_branch]
PrintStmt(expr) == [t |-> "Print", expr |-> expr]
ReturnStmt(keyword, value) == [t |-> "Return", keyword |-> keyword, value |-> value]
VarStmt(name, initializer) == [t |-> "Var", name |-> name, initializer |-> initializer]
WhileStmt(condition, body) == [t |-> "While", condition |-> condition, body |-> body]

(***************************************************************************)
(* Parser (src/src/parser.rs).  Every method takes the parser's `current`  *)
(* and returns what it returned together with the `current` it left:       *)
(*   [k |-> "ok", cur, v]                 Ok(v)                            *)
(*   [k |-> "ParsingError", token, message]   Err(ParsingError)            *)
(*   [k |-> "panic", message]             the thread panicked              *)
(*   [k |-> "overflow"]                   recursion that never returns     *)
(* `d` is the number of nested expression() calls still allowed.           *)
(***************************************************************************)
POk(cur, v) == [k |-> "ok", cur |-> cur, v |-> v]
ParsingError(token, message) ==
    [k |-> "ParsingError", token |-> token, message |-> message]
PPanic(message) == [k |-> "panic", message |-> message]
POverflow == [k |-> "overflow"]

MaxParams == 255

peek(cur) == tokens[cur + 1]

\* &self.tokens[self.current - 1]: defined only for current >= 1; the callers
\* below panic (index out of range) when current = 0.
previous(cur) == tokens[cur]

is_at_end(cur) == peek(cur).id = "Eof"

check(cur, id) == IF is_at_end(cur) THEN FALSE ELSE peek(cur).id = id

\* The `current` advance() leaves (it returns previous()).
advance(cur) == IF ~is_at_end(cur) THEN cur + 1 ELSE cur

match_token(cur, ids) ==
    IF \E id \in ids : check(cur, id)
    THEN [m |-> TRUE, cur |-> advance(cur)]
    ELSE [m |-> FALSE, cur |-> cur]

consume(cur, id, message) ==
    IF check(cur, id)
    THEN POk(advance(cur), previous(advance(cur)))
    ELSE ParsingError(peek(cur), message)

RECURSIVE class_members(_, _, _, _, _), block_statements(_, _, _, _),
          binary_rest(_, _, _), call_rest(_, _), arguments(_, _, _)

\* The parameter loop shared by function() and lambda().
RECURSIVE parameters(_, _)
parameters(cur, acc) ==
    IF Len(acc) >= MaxParams
    THEN ParsingError(peek(cur), "Can't have more than 255 parameters.")
    ELSE LET name == consume(cur, "Identifier", "Expect parameter name.") IN
         IF name.k # "ok" THEN name
         ELSE LET comma == match_token(name.cur, {"Comma"}) IN
              IF comma.m THEN parameters(comma.cur, Append(acc, name.v))
              ELSE POk(name.cur, Append(acc, name.v))

\* Parser_call(method, a) is the call method(a[1], .., a[n]) of one parser method
\* by another; the methods are defined below under their own names.
RECURSIVE Parser_call(_, _)

\* The statement loop of parse().
parse_statements(cur, acc) ==
    IF ~is_at_end(cur)
    THEN LET r == Parser_call("declaration", <<FALSE, cur, MaxParseDepth>>) IN
         IF r.k # "ok" THEN r
         ELSE Parser_call("parse_statements", <<r.cur, Append(acc, r.v)>>)
    ELSE POk(cur, acc)

parse == Parser_call("parse_statements", <<0, <<>>>>)

declaration(in_loop, cur, d) ==
    LET mc == match_token(cur, {"Class"}) IN
    IF mc.m THEN Parser_call("class_declaration", <<mc.cur, d>>)
    ELSE LET mf == match_token(cur, {"Fun"}) IN
         IF mf.m /\ check(mf.cur, "Identifier")
         THEN Parser_call("function", <<"Function", mf.cur, d>>)
         ELSE LET mv == match_token(mf.cur, {"Var"}) IN
              IF mv.m THEN Parser_call("var_declaration", <<mv.cur, d>>)
              ELSE Parser_call("statement", <<in_loop, mv.cur, d>>)

class_members(cur, d, methods, static_methods, getter_methods) ==
    IF ~check(cur, "RightBrace") /\ ~is_at_end(cur)
    THEN LET mc == match_token(cur, {"Class"}) IN
         IF mc.m
         THEN LET f == Parser_call("function", <<"StaticMethod", mc.cur, d>>) IN
              IF f.k # "ok" THEN f
              ELSE class_members(f.cur, d, methods, Append(static_methods, f.v),
                                 getter_methods)
         ELSE LET method == Parser_call("function", <<"Method", cur, d>>) IN
              IF method.k # "ok" THEN method
              ELSE IF method.v.kind = "GetterMethod"
                   THEN class_members(method.cur, d, methods, static_methods,
                                      Append(getter_methods, method.v))
                   ELSE class_members(method.cur, d, Append(methods, method.v),
                                      static_methods, getter_methods)
    ELSE POk(cur, [methods |-> methods, static_methods |-> static_methods,
                   getter_methods |-> getter_methods])

class_declaration(cur, d) ==
    LET name == consume(cur, "Identifier", "Expect class name.") IN
    IF name.k # "ok" THEN name
    ELSE
    LET less == match_token(name.cur, {"Less"})
        sup == IF less.m
               THEN consume(less.cur, "Identifier", "Expect superclass name.")
               ELSE POk(less.cur, None)
    IN
    IF sup.k # "ok" THEN sup
    ELSE
    LET superclass == IF less.m THEN VariableExpr(sup.v) ELSE None
        lb == consume(sup.cur, "LeftBrace", "Expect '{' before class body.")
    IN
    IF lb.k # "ok" THEN lb
    ELSE
    LET members == class_members(lb.cur, d, <<>>, <<>>, <<>>) IN
    IF members.k # "ok" THEN members
    ELSE
    LET rb == consume(members.cur, "RightBrace", "Expect '}' after class body.") IN
    IF rb.k # "ok" THEN rb
    ELSE POk(rb.cur, ClassStmt(name.v, superclass, members.v.methods,
                               members.v.static_methods, members.v.getter_methods))

var_declaration(cur, d) ==
    LET name == consume(cur, "Identifier", "Expect variable name.") IN
    IF name.k # "ok" THEN name
    ELSE
    LET eq == match_token(name.cur, {"Equal"})
        init == IF eq.m
                THEN Parser_call("expression", <<eq.cur, d>>)
                ELSE POk(eq.cur, None)
    IN
    IF init.k # "ok" THEN init
    ELSE
    LET semi == consume(init.cur, "Semicolon", "Expect ';' after variable declaration.") IN
    IF semi.k # "ok" THEN semi
    ELSE POk(semi.cur, VarStmt(name.v, init.v))

while_statement(cur, d) ==
    LET lp == consume(cur, "LeftParen", "Expect '(' after 'while'.") IN
    IF lp.k # "ok" THEN lp
    ELSE
    LET condition == Parser_call("expression", <<lp.cur, d>>) IN
    IF condition.k # "ok" THEN condition
    ELSE
    LET rp == consume(condition.cur, "RightParen", "Expect ')' after while condition.") IN
    IF rp.k # "ok" THEN rp
    ELSE
    LET lb == consume(rp.cur, "LeftBrace", "Expect '{' before while body.") IN
    IF lb.k # "ok" THEN lb
    ELSE
    LET body == Parser_call("block", <<TRUE, lb.cur, d>>) IN
    IF body.k # "ok" THEN body
    ELSE POk(body.cur, WhileStmt(condition.v, body.v))

break_statement(cur) ==
    LET semi == consume(cur, "Semicolon", "Expect ';' after break.") IN
    IF semi.k # "ok" THEN semi ELSE POk(semi.cur, BreakStmt)

continue_statement(cur) ==
    LET semi == consume(cur, "Semicolon", "Expect ';' after continue.") IN
    IF semi.k # "ok" THEN semi ELSE POk(semi.cur, ContinueStmt)

statement(in_loop, cur, d) ==
    LET m == match_token(cur, {"For", "Print", "Return", "While", "If",
                               "LeftBrace", "Break", "Continue"})
        id == IF m.m THEN previous(m.cur).id ELSE "none"
    IN
    CASE id = "For" -> Parser_call("for_statement", <<m.cur, d>>)
      [] id = "Print" -> Parser_call("print_statement", <<m.cur, d>>)
      [] id = "Return" -> Parser_call("return_statement", <<m.cur, d>>)
      [] id = "While" -> Parser_call("while_statement", <<m.cur, d>>)
      [] id = "If" -> Parser_call("if_statement", <<in_loop, m.cur, d>>)
      [] id = "LeftBrace" ->
            Parser_call("block", <<in_loop, m.cur, d>>)
      [] id = "Break" ->
            IF ~in_loop
            THEN ParsingError(previous(m.cur), "Can only use 'break' inside loops.")
            ELSE break_statement(m.cur)
      [] id = "Continue" ->
            IF ~in_loop
            THEN ParsingError(previous(m.cur), "Can only use 'continue' inside loops.")
            ELSE continue_statement(m.cur)
      [] OTHER -> Parser_call("expression_statement", <<cur, d>>)

for_statement(cur, d) ==
    LET lp == consume(cur, "LeftParen", "Expect '(' after 'for'.") IN
    IF lp.k # "ok" THEN lp
    ELSE
    LET ms == match_token(lp.cur, {"Semicolon"})
        mv == match_token(lp.cur, {"Var"})
        initializer ==
            IF ms.m THEN POk(ms.cur, None)
            ELSE IF mv.m THEN Parser_call("var_declaration", <<mv.cur, d>>)
            ELSE Parser_call("expression_statement", <<lp.cur, d>>)
    IN
    IF initializer.k # "ok" THEN initializer
    ELSE
    LET mc == match_token(initializer.cur, {"Semicolon"})
        condition == IF mc.m
                     THEN POk(mc.cur, None)
                     ELSE Parser_call("expression", <<mc.cur, d>>)
    IN
    IF condition.k # "ok" THEN condition
    ELSE
    LET semi == consume(condition.cur, "Semicolon", "Expect ';' after for condition.") IN
    IF semi.k # "ok" THEN semi
    ELSE
    LET mr == match_token(semi.cur, {"RightParen"})
        increment == IF mr.m
                     THEN POk(mr.cur, None)
                     ELSE Parser_call("expression", <<mr.cur, d>>)
    IN
    IF increment.k # "ok" THEN increment
    ELSE
    LET rp == consume(increment.cur, "RightParen", "Expect ')' after for clauses.") IN
    IF rp.k # "ok" THEN rp
    ELSE
    LET lb == consume(rp.cur, "LeftBrace", "Expect '{' before for body.") IN
    IF lb.k # "ok" THEN lb
    ELSE
    LET blk == Parser_call("block", <<TRUE, lb.cur, d>>) IN
    IF blk.k # "ok" THEN blk
    ELSE
    LET body == IF increment.v # None
                THEN BlockStmt(Append(blk.v.statements, ExpressionStmt(increment.v)))
                ELSE blk.v
        cond == IF condition.v # None THEN condition.v ELSE LiteralExpr(Boolean(TRUE))
        stmt == WhileStmt(cond, body)
    IN
    POk(blk.cur, IF initializer.v # None
                 THEN BlockStmt(<<initializer.v, stmt>>)
                 ELSE stmt)

\* if_statement with the loop context dropped at its branches.
if_statement_drops_loop(in_loop, cur, d) ==
    LET lp == consume(cur, "LeftParen", "Expect '(' after 'if'.") IN
    IF lp.k # "ok" THEN lp
    ELSE
    LET condition == Parser_call("expression", <<lp.cur, d>>) IN
    IF condition.k # "ok" THEN condition
    ELSE
    LET rp == consume(condition.cur, "RightParen", "Expect ')' after if condition.") IN
    IF rp.k # "ok" THEN rp
    ELSE
    LET lb == consume(rp.cur, "LeftBrace", "Expect '{' before if body.") IN
    IF lb.k # "ok" THEN lb
    ELSE
    LET then_branch == Parser_call("block", <<FALSE, lb.cur, d>>) IN
    IF then_branch.k # "ok" THEN then_branch
    ELSE
    LET me == match_token(then_branch.cur, {"Else"}) IN
    IF ~me.m THEN POk(me.cur, IfStmt(condition.v, then_branch.v, None))
    ELSE
    LET elb == consume(me.cur, "LeftBrace", "Expect '{' before else body.") IN
    IF elb.k # "ok" THEN elb
    ELSE
    LET else_branch == Parser_call("block", <<FALSE, elb.cur, d>>) IN
    IF else_branch.k # "ok" THEN else_branch
    ELSE POk(else_branch.cur, IfStmt(condition.v, then_branch.v, else_branch.v))

if_statement(in_loop, cur, d) ==
    LET lp == consume(cur, "LeftParen", "Expect '(' after 'if'.") IN
    IF lp.k # "ok" THEN lp
    ELSE
    LET condition == Parser_call("expression", <<lp.cur, d>>) IN
    IF condition.k # "ok" THEN condition
    ELSE
    LET rp == consume(condition.cur, "RightParen", "Expect ')' after if condition.") IN
    IF rp.k # "ok" THEN rp
    ELSE
    LET lb == consume(rp.cur, "LeftBrace", "Expect '{' before if body.") IN
    IF lb.k # "ok" THEN lb
    ELSE
    LET then_branch == Parser_call("block", <<in_loop, lb.cur, d>>) IN
    IF then_branch.k # "ok" THEN then_branch
    ELSE
    LET me == match_token(then_branch.cur, {"Else"}) IN
    IF ~me.m THEN POk(me.cur, IfStmt(condition.v, then_branch.v, None))
    ELSE
    LET elb == consume(me.cur, "LeftBrace", "Expect '{' before else body.") IN
    IF elb.k # "ok" THEN elb
    ELSE
    LET else_branch == Parser_call("block", <<in_loop, elb.cur, d>>) IN
    IF else_branch.k # "ok" THEN else_branch
    ELSE POk(else_branch.cur, IfStmt(condition.v, then_branch.v, else_branch.v))

print_statement(cur, d) ==
    LET lp == consume(cur, "LeftParen", "Expect '(' after 'print'.") IN
    IF lp.k # "ok" THEN lp
    ELSE
    LET value == Parser_call("expression", <<lp.cur, d>>) IN
    IF value.k # "ok" THEN value
    ELSE
    LET rp == consume(value.cur, "RightParen", "Expect ')' after arguments.") IN
    IF rp.k # "ok" THEN rp
    ELSE
    LET semi == consume(rp.cur, "Semicolon", "Expect ';' after print statement.") IN
    IF semi.k # "ok" THEN semi
    ELSE POk(semi.cur, PrintStmt(value.v))

return_statement(cur, d) ==
    LET keyword == previous(cur)
        value == IF ~check(cur, "Semicolon")
                 THEN Parser_call("expression", <<cur, d>>)
                 ELSE POk(cur, None)
    IN
    IF value.k # "ok" THEN value
    ELSE
    LET semi == consume(value.cur, "Semicolon", "Expect ';' after return value.") IN
    IF semi.k # "ok" THEN semi
    ELSE POk(semi.cur, ReturnStmt(keyword, value.v))

expression_statement(cur, d) ==
    LET e == Parser_call("expression", <<cur, d>>) IN
    IF e.k # "ok" THEN e
    ELSE IF e.v.t = "Lambda" THEN POk(e.cur, ExpressionStmt(e.v))
    ELSE LET semi == consume(e.cur, "Semicolon", "Expect ';' after expression.") IN
         IF semi.k # "ok" THEN semi
         ELSE POk(semi.cur, ExpressionStmt(e.v))

\* Display for FunctionType
FunctionType_display(kind) ==
    CASE kind = "Function" -> "function"
      [] kind = "Initializer" -> "initializer"
      [] kind = "Method" -> "method"
      [] kind = "StaticMethod" -> "static method"
      [] kind = "GetterMethod" -> "getter method"
      [] kind = "None" -> "none"

function(kind0, cur, d) ==
    LET name == consume(cur, "Identifier",
                        "Expect " \o FunctionType_display(kind0) \o " name.") IN
    IF name.k # "ok" THEN name
    ELSE
    LET getter == kind0 = "Method" /\ check(name.cur, "LeftBrace")
        kind == IF getter THEN "GetterMethod"
                ELSE IF name.v.value = TV_String("init") THEN "Initializer"
                ELSE kind0
        lp == IF getter THEN POk(name.cur, None)
              ELSE consume(name.cur, "LeftParen",
                           "Expect '(' after " \o FunctionType_display(kind) \o " name.")
    IN
    IF lp.k # "ok" THEN lp
    ELSE
    LET params == IF getter \/ check(lp.cur, "RightParen")
                  THEN POk(lp.cur, <<>>)
                  ELSE parameters(lp.cur, <<>>)
    IN
    IF params.k # "ok" THEN params
    ELSE
    LET rp == IF getter THEN POk(params.cur, None)
              ELSE consume(params.cur, "RightParen", "Expect ')' after parameters.")
    IN
    IF rp.k # "ok" THEN rp
    ELSE
    LET lb == consume(rp.cur, "LeftBrace",
                      "Expect '{' before " \o FunctionType_display(kind) \o " body.") IN
    IF lb.k # "ok" THEN lb
    ELSE
    LET body == Parser_call("block", <<FALSE, lb.cur, d>>) IN
    IF body.k # "ok" THEN body
    ELSE POk(body.cur, FunctionStmt(name.v, params.v, body.v, kind))

block_statements(in_loop, cur, d, acc) ==
    IF ~check(cur, "RightBrace") /\ ~is_at_end(cur)
    THEN LET r == Parser_call("declaration", <<in_loop, cur, d>>) IN
         IF r.k # "ok" THEN r
         ELSE block_statements(in_loop, r.cur, d, Append(acc, r.v))
    ELSE POk(cur, acc)

block(in_loop, cur, d) ==
    IF cur = 0 THEN PPanic("index out of bounds: tokens[current - 1]")
    ELSE IF previous(cur).id # "LeftBrace"
    THEN ParsingError(previous(cur), "Expect '{' before block.")
    ELSE
    LET stmts == block_statements(in_loop, cur, d, <<>>) IN
    IF stmts.k # "ok" THEN stmts
    ELSE
    LET rb == consume(stmts.cur, "RightBrace", "Expect '}' after block.") IN
    IF rb.k # "ok" THEN rb
    ELSE POk(rb.cur, BlockStmt(stmts.v))

expression(cur, d) == IF d = 0 THEN POverflow ELSE Parser_call("lambda", <<cur, d - 1>>)

lambda(cur, d) ==
    IF cur = 0 THEN PPanic("index out of bounds: tokens[current - 1]")
    ELSE
    LET mf == IF previous(cur).id = "Fun"
              THEN [m |-> TRUE, cur |-> cur]
              ELSE match_token(cur, {"Fun"})
    IN
    IF ~mf.m THEN Parser_call("ternary", <<cur, d>>)
    ELSE
    LET lp == consume(mf.cur, "LeftParen", "Expect '(' after 'fun' for lambda.") IN
    IF lp.k # "ok" THEN lp
    ELSE
    LET params == IF check(lp.cur, "RightParen")
                  THEN POk(lp.cur, <<>>)
                  ELSE parameters(lp.cur, <<>>)
    IN
    IF params.k # "ok" THEN params
    ELSE
    LET rp == consume(params.cur, "RightParen", "Expect ')' after parameters.") IN
    IF rp.k # "ok" THEN rp
    ELSE
    LET lb == consume(rp.cur, "LeftBrace", "Expect '{' before function body.") IN
    IF lb.k # "ok" THEN lb
    ELSE
    LET body == Parser_call("block", <<FALSE, lb.cur, d>>) IN
    IF body.k # "ok" THEN body
    ELSE POk(body.cur, LambdaExpr(params.v, body.v))

ternary(cur, d) ==
    LET e == Parser_call("assignment", <<cur, d>>) IN
    IF e.k # "ok" THEN e
    ELSE
    LET q == match_token(e.cur, {"Question"}) IN
    IF ~q.m THEN e
    ELSE
    LET then_branch == Parser_call("expression", <<q.cur, d>>) IN
    IF then_branch.k # "ok" THEN then_branch
    ELSE
    LET colon == consume(then_branch.cur, "Colon", "Expect ':' after then branch.") IN
    IF colon.k # "ok" THEN colon
    ELSE
    LET else_branch == Parser_call("expression", <<colon.cur, d>>) IN
    IF else_branch.k # "ok" THEN else_branch
    ELSE POk(else_branch.cur, TernaryExpr(e.v, then_branch.v, else_branch.v))

assignment(cur, d) ==
    LET e == Parser_call("or", <<cur, d>>) IN
    IF e.k # "ok" THEN e
    ELSE
    LET eq == match_token(e.cur, {"Equal"}) IN
    IF ~eq.m THEN e
    ELSE
    LET equals == previous(eq.cur)
        value == Parser_call("assignment", <<eq.cur, d>>)
    IN
    IF value.k # "ok" THEN value
    ELSE CASE e.v.t = "Variable" -> POk(value.cur, AssignExpr(e.v.name, value.v))
           [] e.v.t = "Get" -> POk(value.cur, SetExpr(e.v.object, e.v.name, value.v))
           [] OTHER -> ParsingError(equals, "Invalid assignment target.")

\* The `while self.match_token(ops)` loop of or, and, equality, comparison,
\* term and factor: `level` names the method whose loop this is.
BinaryOps(level) ==
    CASE level = "or" -> {"Or"}
      [] level = "and" -> {"And"}
      [] level = "equality" -> {"BangEqual", "EqualEqual"}
      [] level = "comparison" -> {"Greater", "GreaterEqual", "Less", "LessEqual"}
      [] level = "term" -> {"Minus", "Plus"}
      [] level = "factor" -> {"Slash", "Star"}

binary_rest(level, e, d) ==
    IF e.k # "ok" THEN e
    ELSE
    LET m == match_token(e.cur, BinaryOps(level)) IN
    IF ~m.m THEN e
    ELSE
    LET operator == previous(m.cur)
        right == CASE level = "or" -> Parser_call("and", <<m.cur, d>>)
                   [] level = "and" -> Parser_call("equality", <<m.cur, d>>)
                   [] level = "equality" -> Parser_call("comparison", <<m.cur, d>>)
                   [] level = "comparison" -> Parser_call("term", <<m.cur, d>>)
                   [] level = "term" -> Parser_call("factor", <<m.cur, d>>)
                   [] level = "factor" -> Parser_call("unary", <<m.cur, d>>)
    IN
    IF right.k # "ok" THEN right
    ELSE binary_rest(level,
                     POk(right.cur,
                         IF level \in {"or", "and"}
                         THEN LogicalExpr(e.v, operator, right.v)
                         ELSE BinaryExpr(e.v, operator, right.v)),
                     d)

or(cur, d) == binary_rest("or", Parser_call("and", <<cur, d>>), d)

and(cur, d) == binary_rest("and", Parser_call("equality", <<cur, d>>), d)

equality(cur, d) == binary_rest("equality", Parser_call("comparison", <<cur, d>>), d)

comparison(cur, d) == binary_rest("comparison", Parser_call("term", <<cur, d>>), d)

term(cur, d) == binary_rest("term", Parser_call("factor", <<cur, d>>), d)

factor(cur, d) == binary_rest("factor", Parser_call("unary", <<cur, d>>), d)

unary(cur, d) ==
    LET m == match_token(cur, {"Bang", "Minus"}) IN
    IF ~m.m THEN Parser_call("call", <<cur, d>>)
    ELSE
    LET operator == previous(m.cur)
        right == Parser_call("unary", <<m.cur, d>>)
    IN
    IF right.k # "ok" THEN right
    ELSE POk(right.cur, UnaryExpr(operator, right.v))

call_rest(e, d) ==
    IF e.k # "ok" THEN e
    ELSE
    LET mp == match_token(e.cur, {"LeftParen"})
        md == match_token(e.cur, {"Dot"})
    IN
    IF mp.m THEN call_rest(Parser_call("finish_call", <<e.v, mp.cur, d>>), d)
    ELSE IF md.m
    THEN LET name == consume(md.cur, "Identifier", "Expect property name after '.'.") IN
         IF name.k # "ok" THEN name
         ELSE call_rest(POk(name.cur, GetExpr(e.v, name.v)), d)
    ELSE e

call(cur, d) == call_rest(Parser_call("primary", <<cur, d>>), d)

arguments(cur, d, acc) ==
    IF Len(acc) >= MaxParams
    THEN ParsingError(peek(cur), "Can't have more than 255 arguments.")
    ELSE LET a == Parser_call("expression", <<cur, d>>) IN
         IF a.k # "ok" THEN a
         ELSE LET comma == match_token(a.cur, {"Comma"}) IN
              IF comma.m THEN arguments(comma.cur, d, Append(acc, a.v))
              ELSE POk(a.cur, Append(acc, a.v))

finish_call(callee, cur, d) ==
    LET args == IF ~check(cur, "RightParen") THEN arguments(cur, d, <<>>)
                ELSE POk(cur, <<>>)
    IN
    IF args.k # "ok" THEN args
    ELSE
    LET paren == consume(args.cur, "RightParen", "Expect ')' after arguments.") IN
    IF paren.k # "ok" THEN paren
    ELSE POk(paren.cur, CallExpr(callee, paren.v, args.v))

primary(cur0, d) ==
    LET cur == advance(cur0) IN
    IF cur = 0 THEN PPanic("index out of bounds: tokens[current - 1]")
    ELSE
    LET tok == previous(cur)
        token_type == tok.id
    IN
    CASE token_type = "False" -> POk(cur, LiteralExpr(Boolean(FALSE)))
      [] token_type = "True" -> POk(cur, LiteralExpr(Boolean(TRUE)))
      [] token_type = "Nil" -> POk(cur, LiteralExpr(Nil))
      [] token_type = "Number" ->
            IF tok.value.k = "Number" THEN POk(cur, LiteralExpr(Number(tok.value.n)))
            ELSE PPanic("Unexpected object type")
      [] token_type = "String" ->
            IF tok.value.k = "String" THEN POk(cur, LiteralExpr(String(tok.value.s)))
            ELSE PPanic("Unexpected object type")
      [] token_type = "Super" ->
            LET dot == consume(cur, "Dot", "Expect '.' after 'super'.") IN
            IF dot.k # "ok" THEN dot
            ELSE LET method == consume(dot.cur, "Identifier",
                                       "Expect superclass method name.") IN
                 IF method.k # "ok" THEN method
                 ELSE POk(method.cur, SuperExpr(tok, method.v))
      [] token_type = "This" -> POk(cur, ThisExpr(tok))
      [] token_type = "Identifier" -> POk(cur, VariableExpr(tok))
      [] token_type = "LeftParen" ->
            \* At Eof advance() has not moved and the '(' is the token before
            \* Eof: expression() comes back here with the same current, and
            \* so on until the native stack is exhausted.
            IF cur = cur0 THEN POverflow
            ELSE
            LET e == Parser_call("expression", <<cur, d>>) IN
            IF e.k # "ok" THEN e
            ELSE LET rp == consume(e.cur, "RightParen", "Expect ')' after expression.") IN
                 IF rp.k # "ok" THEN rp
                 ELSE POk(rp.cur, GroupingExpr(e.v))
      [] OTHER -> ParsingError(peek(cur), "Unexpected expression")

\* The method table of Parser_call.
Parser_call(method, a) ==
    CASE method = "parse_statements" -> parse_statements(a[1], a[2])
      [] method = "declaration" -> declaration(a[1], a[2], a[3])
      [] method = "class_declaration" -> class_declaration(a[1], a[2])
      [] method = "var_declaration" -> var_declaration(a[1], a[2])
      [] method = "while_statement" -> while_statement(a[1], a[2])
      [] method = "statement" -> statement(a[1], a[2], a[3])
      [] method = "for_statement" -> for_statement(a[1], a[2])
      [] method = "if_statement" -> if_statement(a[1], a[2], a[3])
      [] method = "print_statement" -> print_statement(a[1], a[2])
      [] method = "return_statement" -> return_statement(a[1], a[2])
      [] method = "expression_statement" -> expression_statement(a[1], a[2])
      [] method = "function" -> function(a[1], a[2], a[3])
      [] method = "block" -> block(a[1], a[2], a[3])
      [] method = "expression" -> expression(a[1], a[2])
      [] method = "lambda" -> lambda(a[1], a[2])
      [] method = "ternary" -> ternary(a[1], a[2])
      [] method = "assignment" -> assignment(a[1], a[2])
      [] method = "or" -> or(a[1], a[2])
      [] method = "and" -> and(a[1], a[2])
      [] method = "equality" -> equality(a[1], a[2])
      [] method = "comparison" -> comparison(a[1], a[2])
      [] method = "term" -> term(a[1], a[2])
      [] method = "factor" -> factor(a[1], a[2])
      [] method = "unary" -> unary(a[1], a[2])
      [] method = "call" -> call(a[1], a[2])
      [] method = "finish_call" -> finish_call(a[1], a[2], a[3])
      [] method = "primary" -> primary(a[1], a[2])

(***************************************************************************)
(* Resolver (src/src/resolver.rs).  The resolver state rs is               *)
(*   scopes            Vec<HashMap<String, bool>>                          *)
(*   current_function  FunctionType                                        *)
(*   current_class     ClassType                                           *)
(*   locals            the interpreter's locals table it writes into       *)
(*   err               None, or the RuntimeError a method returned         *)
(* A method that returns Err leaves rs as it was at the `?` or `return`.   *)
(***************************************************************************)
EmptyMap == [x \in {} |-> FALSE]

\* Expr::to_hash hashes the Debug text of the node, which spells out every
\* field of the node, its tokens' line and column included: two nodes have
\* the same key exactly when they are equal as records.
to_hash(expr) == expr

\* Interpreter::resolve, on the locals table.
resolve(locals, expr, depth) == (to_hash(expr) :> depth) @@ locals

Resolver_new(locals) ==
    [scopes |-> <<EmptyMap>>, current_function |-> "None",
     current_class |-> "None", locals |-> locals, err |-> None]

RuntimeError(token, message) == [token |-> token, message |-> message]

RFail(rs, token, message) == [rs EXCEPT !.err = RuntimeError(token, message)]

begin_scope(rs) == [rs EXCEPT !.scopes = Append(@, EmptyMap)]

end_scope(rs) ==
    [rs EXCEPT !.scopes = IF Len(@) = 0 THEN @ ELSE SubSeq(@, 1, Len(@) - 1)]

\* scopes.last_mut().insert(name, v)
scope_insert(rs, name, v) ==
    IF Len(rs.scopes) = 0 THEN rs
    ELSE [rs EXCEPT !.scopes[Len(rs.scopes)] = (name :> v) @@ @]

declare(rs, name) ==
    IF Len(rs.scopes) = 0 THEN rs
    ELSE IF to_string(name.value) \in DOMAIN rs.scopes[Len(rs.scopes)]
    THEN RFail(rs, name, "Already a variable with this name in this scope.")
    ELSE scope_insert(rs, to_string(name.value), FALSE)

define(rs, name) == scope_insert(rs, to_string(name.value), TRUE)

\* The innermost scope that holds `name`, 0 when none does.
RECURSIVE innermost_scope(_, _, _)
innermost_scope(scopes, i, name) ==
    IF i = 0 THEN 0
    ELSE IF name \in DOMAIN scopes[i] THEN i
    ELSE innermost_scope(scopes, i - 1, name)

resolve_local(rs, expr, name) ==
    LET i == innermost_scope(rs.scopes, Len(rs.scopes), to_string(name.value)) IN
    IF i = 0 THEN rs
    ELSE [rs EXCEPT !.locals = resolve(@, expr, Len(rs.scopes) - i)]

RECURSIVE resolve_stmts_from(_, _, _), resolve_exprs_from(_, _, _),
          resolve_functions_from(_, _, _), declare_params(_, _, _)

\* Resolver_call(method, a) is the call method(a[1], .., a[n]) of one resolver method
\* by another; the methods are defined below under their own names.
RECURSIVE Resolver_call(_, _)

resolve_stmts_from(rs, stmts, i) ==
    IF i > Len(stmts) THEN rs
    ELSE LET r == Resolver_call("resolve_stmt", <<rs, stmts[i]>>) IN
         IF r.err # None THEN r ELSE resolve_stmts_from(r, stmts, i + 1)

resolve_stmts(rs, stmts) == resolve_stmts_from(rs, stmts, 1)

resolve_exprs_from(rs, exprs, i) ==
    IF i > Len(exprs) THEN rs
    ELSE LET r == Resolver_call("resolve_expr", <<rs, exprs[i]>>) IN
         IF r.err # None THEN r ELSE resolve_exprs_from(r, exprs, i + 1)

declare_params(rs, params, i) ==
    IF i > Len(params) THEN rs
    ELSE LET r == declare(rs, params[i]) IN
         IF r.err # None THEN r ELSE declare_params(define(r, params[i]), params, i + 1)

\* The body shared by resolve_function and visit_lambda_expr.
resolve_callable(rs, kind, params, body) ==
    LET enclosing_function == rs.current_function
        r1 == begin_scope([rs EXCEPT !.current_function = kind])
        r2 == declare_params(r1, params, 1)
    IN
    IF r2.err # None THEN r2
    ELSE LET r3 == Resolver_call("resolve_stmts", <<r2, body.statements>>) IN
         IF r3.err # None THEN r3
         ELSE [end_scope(r3) EXCEPT !.current_function = enclosing_function]

resolve_function(rs, fn) ==
    Resolver_call("resolve_callable", <<rs, fn.kind, fn.params, fn.body>>)

resolve_functions_from(rs, functions, i) ==
    IF i > Len(functions) THEN rs
    ELSE LET r == Resolver_call("resolve_function", <<rs, functions[i]>>) IN
         IF r.err # None THEN r ELSE resolve_functions_from(r, functions, i + 1)

R_visit_variable_expr(rs, expr) ==
    IF /\ Len(rs.scopes) > 0
       /\ to_string(expr.name.value) \in DOMAIN rs.scopes[Len(rs.scopes)]
       /\ rs.scopes[Len(rs.scopes)][to_string(expr.name.value)] = FALSE
    THEN RFail(rs, expr.name, "Can't read local variable in its own initializer.")
    ELSE resolve_local(rs, expr, expr.name)

R_visit_super_expr(rs, expr) ==
    IF rs.current_class = "None"
    THEN RFail(rs, expr.keyword, "Can't use 'super' outside of a class.")
    ELSE IF rs.current_class # "Subclass"
    THEN RFail(rs, expr.keyword, "Can't use 'super' in a class with no superclass.")
    ELSE resolve_local(rs, expr, expr.keyword)

\* A resolver that lets this through wherever it stands.
R_visit_this_expr_unchecked(rs, expr) == resolve_local(rs, expr, expr.keyword)

R_visit_this_expr(rs, expr) ==
    IF rs.current_class = "None"
    THEN RFail(rs, expr.keyword, "Can't use 'this' outside of a class.")
    ELSE resolve_local(rs, expr, expr.keyword)

resolve_expr(rs, expr) ==
    CASE expr.t = "Assign" ->
            LET r == Resolver_call("resolve_expr", <<rs, expr.value>>) IN
            IF r.err # None THEN r ELSE resolve_local(r, expr, expr.name)
      [] expr.t = "Binary" ->
            LET r == Resolver_call("resolve_expr", <<rs, expr.left>>) IN
            IF r.err # None THEN r ELSE Resolver_call("resolve_expr", <<r, expr.right>>)
      [] expr.t = "Call" ->
            LET r == Resolver_call("resolve_expr", <<rs, expr.callee>>) IN
            IF r.err # None THEN r ELSE resolve_exprs_from(r, expr.arguments, 1)
      [] expr.t = "Get" -> Resolver_call("resolve_expr", <<rs, expr.object>>)
      [] expr.t = "Grouping" -> Resolver_call("resolve_expr", <<rs, expr.expression>>)
      [] expr.t = "Lambda" -> Resolver_call("resolve_callable", <<rs, "Function", expr.params, expr.body>>)
      [] expr.t = "Literal" -> rs
      [] expr.t = "Logical" -> Resolver_call("resolve_expr", <<rs, expr.right>>)
      [] expr.t = "Set" ->
            LET r == Resolver_call("resolve_expr", <<rs, expr.value>>) IN
            IF r.err # None THEN r ELSE Resolver_call("resolve_expr", <<r, expr.object>>)
      [] expr.t = "Super" -> Resolver_call("R_visit_super_expr", <<rs, expr>>)
      [] expr.t = "This" -> Resolver_call("R_visit_this_expr", <<rs, expr>>)
      [] expr.t = "Ternary" ->
            LET r1 == Resolver_call("resolve_expr", <<rs, expr.condition>>) IN
            IF r1.err # None THEN r1
            ELSE LET r2 == Resolver_call("resolve_expr", <<r1, expr.then_branch>>) IN
                 IF r2.err # None THEN r2
                 ELSE Resolver_call("resolve_expr", <<r2, expr.else_branch>>)
      [] expr.t = "Unary" -> Resolver_call("resolve_expr", <<rs, expr.right>>)
      [] expr.t = "Variable" -> Resolver_call("R_visit_variable_expr", <<rs, expr>>)

R_visit_block_stmt(rs, stmt) ==
    LET r == Resolver_call("resolve_stmts", <<begin_scope(rs), stmt.statements>>) IN
    IF r.err # None THEN r ELSE end_scope(r)

R_visit_class_stmt(rs, stmt) ==
    LET enclosing_class == rs.current_class
        r1 == declare([rs EXCEPT !.current_class = "Class"], stmt.name)
    IN
    IF r1.err # None THEN r1
    ELSE
    LET r2 == define(r1, stmt.name) IN
    IF stmt.superclass # None /\ stmt.name.value = stmt.superclass.name.value
    THEN RFail(r2, stmt.superclass.name, "A class cannot inherit from itself.")
    ELSE
    LET r3 == IF stmt.superclass # None
              THEN Resolver_call("resolve_expr", <<[r2 EXCEPT !.current_class = "Subclass"], stmt.superclass>>)
              ELSE r2
    IN
    IF r3.err # None THEN r3
    ELSE
    LET r4 == IF stmt.superclass # None
              THEN scope_insert(begin_scope(r3), "super", TRUE)
              ELSE r3
        r5 == scope_insert(begin_scope(r4), "this", TRUE)
        r6 == resolve_functions_from(r5, stmt.methods, 1)
    IN
    IF r6.err # None THEN r6
    ELSE
    LET r7 == resolve_functions_from(r6, stmt.getter_methods, 1) IN
    IF r7.err # None THEN r7
    ELSE
    LET r8 == resolve_functions_from(begin_scope(end_scope(r7)), stmt.static_methods, 1) IN
    IF r8.err # None THEN r8
    ELSE
    LET r9 == end_scope(r8)
        r10 == IF stmt.superclass # None THEN end_scope(r9) ELSE r9
    IN
    [r10 EXCEPT !.current_class = enclosing_class]

R_visit_function_stmt(rs, stmt) ==
    LET r == declare(rs, stmt.name) IN
    IF r.err # None THEN r
    ELSE Resolver_call("resolve_function", <<define(r, stmt.name), stmt>>)

R_visit_if_stmt(rs, stmt) ==
    LET r1 == Resolver_call("resolve_expr", <<rs, stmt.condition>>) IN
    IF r1.err # None THEN r1
    ELSE LET r2 == Resolver_call("R_visit_block_stmt", <<r1, stmt.then_branch>>) IN
         IF r2.err # None THEN r2
         ELSE IF stmt.else_branch # None
         THEN Resolver_call("R_visit_block_stmt", <<r2, stmt.else_branch>>)
         ELSE r2

R_visit_return_stmt(rs, stmt) ==
    IF rs.current_function = "None"
    THEN RFail(rs, stmt.keyword, "Cannot return from top-level code.")
    ELSE IF stmt.value # None
    THEN IF rs.current_function = "Initializer"
         THEN RFail(rs, stmt.keyword, "Cannot return a value from an initializer.")
         ELSE Resolver_call("resolve_expr", <<rs, stmt.value>>)
    ELSE rs

R_visit_var_stmt(rs, stmt) ==
    LET r1 == declare(rs, stmt.name) IN
    IF r1.err # None THEN r1
    ELSE LET r2 == IF stmt.initializer # None
                   THEN Resolver_call("resolve_expr", <<r1, stmt.initializer>>)
                   ELSE r1
         IN
         IF r2.err # None THEN r2 ELSE define(r2, stmt.name)

R_visit_while_stmt(rs, stmt) ==
    LET r == Resolver_call("resolve_expr", <<rs, stmt.condition>>) IN
    IF r.err # None THEN r ELSE Resolver_call("R_visit_block_stmt", <<r, stmt.body>>)

resolve_stmt(rs, stmt) ==
    CASE stmt.t = "Block" -> Resolver_call("R_visit_block_stmt", <<rs, stmt>>)
      [] stmt.t = "Break" -> rs
      [] stmt.t = "Continue" -> rs
      [] stmt.t = "Class" -> Resolver_call("R_visit_class_stmt", <<rs, stmt>>)
      [] stmt.t = "Expression" -> Resolver_call("resolve_expr", <<rs, stmt.expr>>)
      [] stmt.t = "Function" -> Resolver_call("R_visit_function_stmt", <<rs, stmt>>)
      [] stmt.t = "If" -> Resolver_call("R_visit_if_stmt", <<rs, stmt>>)
      [] stmt.t = "Print" -> Resolver_call("resolve_expr", <<rs, stmt.expr>>)
      [] stmt.t = "Return" -> Resolver_call("R_visit_return_stmt", <<rs, stmt>>)
      [] stmt.t = "Var" -> Resolver_call("R_visit_var_stmt", <<rs, stmt>>)
      [] stmt.t = "While" -> Resolver_call("R_visit_while_stmt", <<rs, stmt>>)

\* The method table of Resolver_call.
Resolver_call(method, a) ==
    CASE method = "resolve_stmts" -> resolve_stmts(a[1], a[2])
      [] method = "resolve_stmt" -> resolve_stmt(a[1], a[2])
      [] method = "resolve_expr" -> resolve_expr(a[1], a[2])
      [] method = "resolve_function" -> resolve_function(a[1], a[2])
      [] method = "resolve_callable" -> resolve_callable(a[1], a[2], a[3], a[4])
      [] method = "R_visit_variable_expr" -> R_visit_variable_expr(a[1], a[2])
      [] method = "R_visit_super_expr" -> R_visit_super_expr(a[1], a[2])
      [] method = "R_visit_this_expr" -> R_visit_this_expr(a[1], a[2])
      [] method = "R_visit_block_stmt" -> R_visit_block_stmt(a[1], a[2])
      [] method = "R_visit_class_stmt" -> R_visit_class_stmt(a[1], a[2])
      [] method = "R_visit_function_stmt" -> R_visit_function_stmt(a[1], a[2])
      [] method = "R_visit_if_stmt" -> R_visit_if_stmt(a[1], a[2])
      [] method = "R_visit_return_stmt" -> R_visit_return_stmt(a[1], a[2])
      [] method = "R_visit_var_stmt" -> R_visit_var_stmt(a[1], a[2])
      [] method = "R_visit_while_stmt" -> R_visit_while_stmt(a[1], a[2])

(***************************************************************************)
(* Environment (src/src/environment.rs).  Environments live in a heap,     *)
(* envs, a sequence of records [enclosing, values]; an Rc<RefCell<..>> is  *)
(* the index of its record and enclosing = 0 is None.                      *)
(***************************************************************************)
EOk(v) == [k |-> "ok", v |-> v]
EErr(token, message) == [k |-> "error", v |-> RuntimeError(token, message)]

\* PartialEq for Object: only two values of the same plain variant are equal.
Object_eq(a, b) ==
    /\ a.k \in {"Boolean", "Number", "String", "Nil", "Undefined"}
    /\ a.k = b.k
    /\ a = b

is_truthy(object) ==
    CASE object.k = "Boolean" -> object.b
      [] object.k = "Nil" -> FALSE
      [] object.k = "Undefined" -> FALSE
      [] OTHER -> TRUE

Environment_new(enclosing) == [enclosing |-> enclosing, values |-> EmptyMap]

RECURSIVE Environment_get(_, _, _), Environment_assign(_, _, _, _)

Environment_get(envs, e, name) ==
    IF to_string(name.value) \in DOMAIN envs[e].values
    THEN IF ~Object_eq(envs[e].values[to_string(name.value)], Undefined)
         THEN EOk(envs[e].values[to_string(name.value)])
         ELSE EErr(name, "The variable isn't initialized.")
    ELSE IF envs[e].enclosing # 0
    THEN Environment_get(envs, envs[e].enclosing, name)
    ELSE EErr(name, "Undefined variable.")

\* v is the heap after the assignment.
Environment_assign(envs, e, name, value) ==
    IF to_string(name.value) \in DOMAIN envs[e].values
    THEN EOk([envs EXCEPT ![e].values[to_string(name.value)] = value])
    ELSE IF envs[e].enclosing # 0
    THEN Environment_assign(envs, envs[e].enclosing, name, value)
    ELSE EErr(name, "Unclarified variable.")

Environment_define(envs, e, name, value) ==
    [envs EXCEPT ![e].values = (name :> value) @@ @]

\* The environment `distance` links out of e, 0 when the chain is shorter.
RECURSIVE ancestor(_, _, _)
ancestor(envs, e, distance) ==
    IF distance = 0 THEN e
    ELSE IF envs[e].enclosing # 0
    THEN ancestor(envs, envs[e].enclosing, distance - 1)
    ELSE 0

get_at(envs, e, distance, name) ==
    IF ancestor(envs, e, distance) # 0
    THEN Environment_get(envs, ancestor(envs, e, distance), name)
    ELSE EErr(name, "The variable isn't declared.")

assign_at(envs, e, distance, name, value) ==
    IF ancestor(envs, e, distance) # 0
    THEN Environment_assign(envs, ancestor(envs, e, distance), name, value)
    ELSE EErr(name, "Unclarified variable.")

(***************************************************************************)
(* Callables, classes and instances (src/src/function.rs, class.rs,        *)
(* builtin_funcs.rs).  A class is immutable once built and is a value; an  *)
(* instance is a cell of the heap `instances`, named by its index.         *)
(***************************************************************************)
ClockFunction == [k |-> "Function", fk |-> "Clock"]

LoxFunction_new(decl, closure, kind) ==
    [k |-> "Function", fk |-> "Lox", declaration |-> decl,
     closure |-> closure, kind |-> kind]

LambdaFunction_new(decl) ==
    [k |-> "Function", fk |-> "Lambda", declaration |-> decl]

LoxClass_new(name, superclass, methods) ==
    [k |-> "Class", name |-> name, superclass |-> superclass, methods |-> methods]

Instance(id) == [k |-> "Instance", id |-> id]

LoxInstance_new(class) == [class |-> class, fields |-> EmptyMap]

\* None when no class of the chain has the method.
RECURSIVE find_method(_, _)
find_method(class, name) ==
    IF name \in DOMAIN class.methods THEN class.methods[name]
    ELSE IF class.superclass # None THEN find_method(class.superclass, name)
    ELSE None

get_getter(instance, name) ==
    LET method == find_method(instance.class, to_string(name.value)) IN
    IF method # None /\ method.kind = "GetterMethod" THEN method ELSE None

This_token == Token("This", TV_String("this"), 0, 0)

\* Display for Object: the line a print statement writes.
Object_display(st, object) ==
    CASE object.k = "Boolean" -> IF object.b THEN "true" ELSE "false"
      [] object.k = "Number" -> ToString(object.n)
      [] object.k = "String" -> object.s
      [] object.k = "Function" ->
            IF object.fk = "Lox"
            THEN "<fn " \o to_string(object.declaration.name.value) \o ">"
            ELSE IF object.fk = "Lambda" THEN "<fn lambda>"
            ELSE "<fn native clock>"
      [] object.k = "Instance" ->
            "<" \o st.instances[object.id].class.name \o " instance>"
      [] object.k = "Class" -> object.name
      [] object.k = "Nil" -> "nil"
      [] object.k = "Undefined" -> "undefined"


(***************************************************************************)
(* Interpreter (src/src/interpreter.rs).  The interpreter state st is      *)
(*   global, environment   indices into envs                               *)
(*   envs, instances       the heap                                        *)
(*   locals                HashMap<u64, usize>, keyed as to_hash keys it   *)
(*   writer                the lines written so far                        *)
(*   depth                 the depth of the native call stack              *)
(*   now                   what the system clock reads                     *)
(*   borrowed              the instances whose RefCell holds a Ref         *)
(* Every method returns [k, v, st]: k is "ok" for Ok(v); "error",          *)
(* "return", "break", "continue" for the four RuntimeException variants;   *)
(* "panic" for a Rust panic; "overflow" when the native stack is           *)
(* exhausted; "hang" when a loop is cut at MaxLoopIters.  st is the        *)
(* state the method leaves behind.                                         *)
(***************************************************************************)
Interpreter_new ==
    [global |-> 1, environment |-> 1,
     envs |-> <<[enclosing |-> 0, values |-> ("clock" :> ClockFunction)]>>,
     instances |-> <<>>, locals |-> EmptyMap, writer |-> <<>>,
     depth |-> 0, now |-> 0, borrowed |-> {}]

Ok(v, st) == [k |-> "ok", v |-> v, st |-> st]
Err(e, st) == [k |-> "error", v |-> e, st |-> st]
Error(token, message, st) == Err(RuntimeError(token, message), st)
Return(value, st) == [k |-> "return", v |-> value, st |-> st]
Break(st) == [k |-> "break", v |-> None, st |-> st]
Continue(st) == [k |-> "continue", v |-> None, st |-> st]
Panic(message, st) == [k |-> "panic", v |-> [message |-> message], st |-> st]
StackOverflow(st) == [k |-> "overflow", v |-> None, st |-> st]
Hang(st) == [k |-> "hang", v |-> None, st |-> st]

\* Result<&Object, _> of an environment read, in the state st.
Lift(r, st) == IF r.k = "ok" THEN Ok(r.v, st) ELSE Err(r.v, st)

lookup_variable(st, name, expr) ==
    IF to_hash(expr) \in DOMAIN st.locals
    THEN Lift(get_at(st.envs, st.environment, st.locals[to_hash(expr)], name), st)
    ELSE Lift(Environment_get(st.envs, st.global, name), st)

\* Rc::new(RefCell::new(Environment::new(enclosing))): [e, st], e the new index.
alloc_env(st, enclosing) ==
    [e |-> Len(st.envs) + 1,
     st |-> [st EXCEPT !.envs = Append(@, Environment_new(enclosing))]]

st_define(st, e, name, value) ==
    [st EXCEPT !.envs = Environment_define(@, e, name, value)]

bind(st, method, instance) ==
    IF instance.k = "Instance"
    THEN LET a == alloc_env(st, method.closure) IN
         Ok(LoxFunction_new(method.declaration, a.e, method.kind),
            st_define(a.st, a.e, "this", instance))
    ELSE Panic("Cannot bind non-instance object.", st)

LoxInstance_get(st, id, name) ==
    IF to_string(name.value) \in DOMAIN st.instances[id].fields
    THEN Ok(st.instances[id].fields[to_string(name.value)], st)
    ELSE IF find_method(st.instances[id].class, to_string(name.value)) # None
    THEN bind([st EXCEPT !.instances = Append(@, st.instances[id])],
              find_method(st.instances[id].class, to_string(name.value)),
              Instance(Len(st.instances) + 1))
    ELSE Error(name, "Undefined property.", st)

LoxInstance_set(st, id, name, value) ==
    [st EXCEPT !.instances[id].fields = (to_string(name.value) :> value) @@ @]

\* environment.define(param, args[i]) for the first n parameters
RECURSIVE define_params(_, _, _, _, _)
define_params(st, e, params, args, n) ==
    IF n = 0 THEN st
    ELSE st_define(define_params(st, e, params, args, n - 1), e,
                   to_string(params[n].value), args[n])

Min(a, b) == IF a < b THEN a ELSE b

binary_op(st, operator, left, right) ==
    LET numbers == left.k = "Number" /\ right.k = "Number" IN
    CASE operator.id = "Greater" -> Ok(Boolean(numbers /\ left.n > right.n), st)
      [] operator.id = "GreaterEqual" -> Ok(Boolean(numbers /\ left.n >= right.n), st)
      [] operator.id = "Less" -> Ok(Boolean(numbers /\ left.n < right.n), st)
      [] operator.id = "LessEqual" -> Ok(Boolean(numbers /\ left.n <= right.n), st)
      [] operator.id = "BangEqual" -> Ok(Boolean(~Object_eq(left, right)), st)
      [] operator.id = "EqualEqual" -> Ok(Boolean(Object_eq(left, right)), st)
      [] operator.id = "Minus" ->
            IF numbers THEN Ok(Number(left.n - right.n), st)
            ELSE Error(operator, "Only support number operands.", st)
      [] operator.id = "Plus" ->
            IF numbers THEN Ok(Number(left.n + right.n), st)
            ELSE IF left.k = "String" /\ right.k = "String"
            THEN Ok(String(left.s \o right.s), st)
            ELSE IF left.k = "String" /\ right.k = "Number"
            THEN Ok(String(left.s \o ToString(right.n)), st)
            ELSE Error(operator, "Invalid operands " \o Object_display(st, left) \o " and "
                                 \o Object_display(st, right) \o " for + operator.", st)
      [] operator.id = "Slash" ->
            IF numbers /\ right.n = 0 THEN Error(operator, "Divided by zero.", st)
            ELSE IF numbers /\ left.n >= 0 /\ right.n > 0 /\ left.n % right.n = 0
            THEN Ok(Number(left.n \div right.n), st)
            ELSE IF numbers THEN [k |-> "unmodelled", v |-> None, st |-> st]
            ELSE Error(operator, "Only support number operands.", st)
      [] operator.id = "Star" ->
            IF numbers THEN Ok(Number(left.n * right.n), st)
            ELSE Error(operator, "Only support number operands.", st)
      [] OTHER -> Error(operator, "Unsupported operator.", st)


RECURSIVE execute_stmts_from(_, _, _, _), evaluate_arguments(_, _, _, _),
          while_loop(_, _, _)

\* Interpreter_call(method, a) is the call method(a[1], .., a[n]) of one
\* method of the interpreter or of a callable by another; the methods are
\* defined below under their own names.
RECURSIVE Interpreter_call(_, _)

\* for stmt in statements { ret = self.execute(stmt)?; }
execute_stmts_from(st, stmts, i, last) ==
    IF i > Len(stmts) THEN Ok(last, st)
    ELSE LET r == Interpreter_call("execute", <<st, stmts[i]>>) IN
         IF r.k # "ok" THEN r
         ELSE execute_stmts_from(r.st, stmts, i + 1, r.v)

execute_block(st, stmts, environment) ==
    LET previous_environment == st.environment
        r == execute_stmts_from([st EXCEPT !.environment = environment],
                                stmts, 1, Undefined)
    IN
    IF r.k # "ok" THEN r
    ELSE Ok(r.v, [r.st EXCEPT !.environment = previous_environment])

\* What an initializer returns: closure.get_at(0, "this").
initializer_this(f, st) == Lift(get_at(st.envs, f.closure, 0, This_token), st)

LoxFunction_call(st, f, args) ==
    LET a == alloc_env(st, f.closure)
        st1 == define_params(a.st, a.e, f.declaration.params, args,
                             Min(Len(f.declaration.params), Len(args)))
        r == Interpreter_call("execute_block", <<st1, f.declaration.body.statements, a.e>>)
    IN
    CASE r.k = "ok" ->
            IF f.kind = "Initializer" THEN initializer_this(f, r.st) ELSE Ok(Nil, r.st)
      [] r.k = "error" -> r
      [] r.k = "return" ->
            IF f.kind = "Initializer" THEN initializer_this(f, r.st) ELSE Ok(r.v, r.st)
      [] r.k \in {"break", "continue"} -> Panic("not yet implemented: Why hit this?", r.st)
      [] OTHER -> r

LambdaFunction_call(st, f, args) ==
    LET a == alloc_env(st, st.global) IN
    IF Len(args) < Len(f.declaration.params)
    THEN Panic("index out of bounds: args[i]", st)
    ELSE Interpreter_call("execute_block", <<define_params(a.st, a.e, f.declaration.params, args,
                                     Len(f.declaration.params)),
                       f.declaration.body.statements, a.e>>)

LoxClass_call(st, class, args) ==
    LET instance == Instance(Len(st.instances) + 1)
        st1 == [st EXCEPT !.instances = Append(@, LoxInstance_new(class))]
        initializer == find_method(class, "init")
    IN
    IF initializer = None THEN Ok(instance, st1)
    ELSE LET b == bind(st1, initializer, instance) IN
         IF b.k # "ok" THEN b
         ELSE LET r == Interpreter_call("LoxFunction_call", <<b.st, b.v, args>>) IN
              IF r.k # "ok" THEN r ELSE Ok(instance, r.st)

\* function.call(self, arguments) on an Rc<dyn LoxCallable>
callable_call(st, f, args) ==
    CASE f.fk = "Lox" -> Interpreter_call("LoxFunction_call", <<st, f, args>>)
      [] f.fk = "Lambda" -> Interpreter_call("LambdaFunction_call", <<st, f, args>>)
      [] f.fk = "Clock" -> Ok(Number(st.now), st)

\* v is the vector of argument values
evaluate_arguments(st, args, i, acc) ==
    IF i > Len(args) THEN Ok(acc, st)
    ELSE LET r == Interpreter_call("evaluate", <<st, args[i]>>) IN
         IF r.k # "ok" THEN r
         ELSE evaluate_arguments(r.st, args, i + 1, Append(acc, r.v))

visit_call_expr(st, expr) ==
    LET callee == Interpreter_call("evaluate", <<st, expr.callee>>) IN
    IF callee.k # "ok" THEN callee
    ELSE
    LET argument_values == evaluate_arguments(callee.st, expr.arguments, 1, <<>>) IN
    IF argument_values.k # "ok" THEN argument_values
    ELSE IF callee.v.k \notin {"Function", "Class"}
    THEN Error(expr.paren, "Can only call functions and classes.", argument_values.st)
    ELSE IF st.depth >= MaxCallDepth THEN StackOverflow(argument_values.st)
    ELSE
    LET entered == [argument_values.st EXCEPT !.depth = @ + 1]
        r == IF callee.v.k = "Function"
             THEN Interpreter_call("callable_call", <<entered, callee.v, argument_values.v>>)
             ELSE Interpreter_call("LoxClass_call", <<entered, callee.v, argument_values.v>>)
    IN
    [r EXCEPT !.st.depth = st.depth]

visit_get_expr(st, expr) ==
    LET object == Interpreter_call("evaluate", <<st, expr.object>>) IN
    IF object.k # "ok" THEN object
    ELSE
    CASE object.v.k = "Instance" ->
            LET getter == get_getter(object.st.instances[object.v.id], expr.name)
                default == LoxInstance_get(object.st, object.v.id, expr.name)
            IN
            IF getter = None THEN default
            ELSE LET b == bind(default.st, getter, object.v) IN
                 IF b.k # "ok" THEN b
                 ELSE IF st.depth >= MaxCallDepth THEN StackOverflow(b.st)
                 ELSE [Interpreter_call("LoxFunction_call",
                                        <<[b.st EXCEPT !.depth = @ + 1,
                                                       !.borrowed = @ \cup {object.v.id}],
                                          b.v, <<>>>>)
                          EXCEPT !.st.depth = st.depth,
                                 !.st.borrowed = object.st.borrowed]
      [] object.v.k = "Class" ->
            IF find_method(object.v, to_string(expr.name.value)) # None
            THEN Ok(find_method(object.v, to_string(expr.name.value)), object.st)
            ELSE Error(expr.name,
                       "Class " \o object.v.name \o " doesn't have a method named '"
                           \o to_string(expr.name.value) \o "'.", object.st)
      [] OTHER -> Error(expr.name, "Only instances have properties.", object.st)

visit_set_expr(st, expr) ==
    LET object == Interpreter_call("evaluate", <<st, expr.object>>) IN
    IF object.k # "ok" THEN object
    ELSE IF object.v.k # "Instance"
    THEN Error(expr.name, "Only instances have properties.", object.st)
    ELSE LET value == Interpreter_call("evaluate", <<object.st, expr.value>>) IN
         IF value.k # "ok" THEN value
         ELSE IF object.v.id \in value.st.borrowed
         THEN Panic("already borrowed: BorrowMutError", value.st)
         ELSE Ok(value.v, LoxInstance_set(value.st, object.v.id, expr.name, value.v))


visit_assign_expr(st, expr) ==
    LET value == Interpreter_call("evaluate", <<st, expr.value>>) IN
    IF value.k # "ok" THEN value
    ELSE LET a == IF to_hash(expr) \in DOMAIN value.st.locals
                  THEN assign_at(value.st.envs, value.st.environment,
                                 value.st.locals[to_hash(expr)], expr.name, value.v)
                  ELSE Environment_assign(value.st.envs, value.st.global,
                                          expr.name, value.v)
         IN
         IF a.k # "ok" THEN Err(a.v, value.st)
         ELSE Ok(value.v, [value.st EXCEPT !.envs = a.v])

visit_binary_expr(st, expr) ==
    LET left == Interpreter_call("evaluate", <<st, expr.left>>) IN
    IF left.k # "ok" THEN left
    ELSE LET right == Interpreter_call("evaluate", <<left.st, expr.right>>) IN
         IF right.k # "ok" THEN right
         ELSE binary_op(right.st, expr.operator, left.v, right.v)

visit_logical_expr(st, expr) ==
    LET left == Interpreter_call("evaluate", <<st, expr.left>>) IN
    IF left.k # "ok" THEN left
    ELSE IF is_truthy(left.v) /\ expr.operator.id = "Or" THEN left
    ELSE IF ~is_truthy(left.v) /\ expr.operator.id = "And" THEN left
    ELSE Interpreter_call("evaluate", <<left.st, expr.right>>)

visit_super_expr(st, expr) ==
    IF to_hash(expr) \notin DOMAIN st.locals
    THEN Panic("called Option::unwrap on a None value", st)
    ELSE
    LET distance == st.locals[to_hash(expr)]
        superclass == get_at(st.envs, st.environment, distance, expr.keyword)
    IN
    IF superclass.k # "ok" THEN Err(superclass.v, st)
    ELSE IF superclass.v.k # "Class"
    THEN Panic("called Option::unwrap on a None value", st)
    ELSE IF distance = 0 THEN Panic("attempt to subtract with overflow", st)
    ELSE
    LET object == get_at(st.envs, st.environment, distance - 1, This_token) IN
    IF object.k # "ok" THEN Err(object.v, st)
    ELSE IF find_method(superclass.v, to_string(expr.method.value)) # None
    THEN bind(st, find_method(superclass.v, to_string(expr.method.value)), object.v)
    ELSE Error(expr.method, "Undefined property.", st)

visit_ternary_expr(st, expr) ==
    LET condition == Interpreter_call("evaluate", <<st, expr.condition>>) IN
    IF condition.k # "ok" THEN condition
    ELSE IF is_truthy(condition.v)
    THEN Interpreter_call("evaluate", <<condition.st, expr.then_branch>>)
    ELSE Interpreter_call("evaluate", <<condition.st, expr.else_branch>>)

visit_unary_expr(st, expr) ==
    LET right == Interpreter_call("evaluate", <<st, expr.right>>) IN
    IF right.k # "ok" THEN right
    ELSE CASE expr.operator.id = "Bang" -> Ok(Boolean(~is_truthy(right.v)), right.st)
           [] expr.operator.id = "Minus" ->
                 IF right.v.k = "Number" THEN Ok(Number(0 - right.v.n), right.st)
                 ELSE Panic("called Option::unwrap on a None value", right.st)
           [] OTHER -> Ok(Nil, right.st)

evaluate(st, expr) ==
    CASE expr.t = "Assign" -> Interpreter_call("visit_assign_expr", <<st, expr>>)
      [] expr.t = "Binary" -> Interpreter_call("visit_binary_expr", <<st, expr>>)
      [] expr.t = "Call" -> Interpreter_call("visit_call_expr", <<st, expr>>)
      [] expr.t = "Get" -> Interpreter_call("visit_get_expr", <<st, expr>>)
      [] expr.t = "Grouping" -> Interpreter_call("evaluate", <<st, expr.expression>>)
      [] expr.t = "Lambda" -> Ok(LambdaFunction_new(expr), st)
      [] expr.t = "Literal" -> Ok(expr.value, st)
      [] expr.t = "Logical" -> Interpreter_call("visit_logical_expr", <<st, expr>>)
      [] expr.t = "Set" -> Interpreter_call("visit_set_expr", <<st, expr>>)
      [] expr.t = "Super" -> Interpreter_call("visit_super_expr", <<st, expr>>)
      [] expr.t = "This" -> lookup_variable(st, expr.keyword, expr)
      [] expr.t = "Ternary" -> Interpreter_call("visit_ternary_expr", <<st, expr>>)
      [] expr.t = "Unary" -> Interpreter_call("visit_unary_expr", <<st, expr>>)
      [] expr.t = "Variable" -> lookup_variable(st, expr.name, expr)

visit_block_stmt(st, stmt) ==
    LET a == alloc_env(st, st.environment) IN
    Interpreter_call("execute_block", <<a.st, stmt.statements, a.e>>)

\* methods.insert(name, LoxFunction::new(method, closure, kind)) for each
RECURSIVE insert_methods(_, _, _, _, _)
insert_methods(methods, declarations, i, closure, kind) ==
    IF i > Len(declarations) THEN methods
    ELSE insert_methods(
            (to_string(declarations[i].name.value) :>
                LoxFunction_new(declarations[i], closure,
                                IF kind = "declared" THEN declarations[i].kind ELSE kind))
            @@ methods,
            declarations, i + 1, closure, kind)

\* Each static method closes over an environment of its own, with no encloser.
RECURSIVE insert_static_methods(_, _, _)
insert_static_methods(ms, declarations, i) ==
    IF i > Len(declarations) THEN ms
    ELSE LET a == alloc_env(ms.st, 0) IN
         insert_static_methods(
            [methods |-> (to_string(declarations[i].name.value) :>
                            LoxFunction_new(declarations[i], a.e, "StaticMethod"))
                         @@ ms.methods,
             st |-> a.st],
            declarations, i + 1)

visit_class_stmt(st, stmt) ==
    LET sup == IF stmt.superclass # None THEN Interpreter_call("evaluate", <<st, stmt.superclass>>)
               ELSE Ok(None, st)
    IN
    IF sup.k # "ok" THEN sup
    ELSE IF stmt.superclass # None /\ sup.v.k # "Class"
    THEN Error(stmt.superclass.name, "Superclass must be a class.", sup.st)
    ELSE
    LET superclass == sup.v
        a == alloc_env(sup.st, sup.st.environment)
        st1 == IF superclass # None
               THEN [st_define(a.st, a.e, "super", superclass)
                        EXCEPT !.environment = a.e]
               ELSE sup.st
        methods1 == insert_methods(EmptyMap, stmt.methods, 1, st1.environment, "declared")
        methods2 == insert_methods(methods1, stmt.getter_methods, 1,
                                   st1.environment, "GetterMethod")
        ms == insert_static_methods([methods |-> methods2, st |-> st1],
                                    stmt.static_methods, 1)
        kclass == LoxClass_new(to_string(stmt.name.value), superclass, ms.methods)
        st2 == IF superclass # None
               THEN [ms.st EXCEPT !.environment = ms.st.envs[@].enclosing]
               ELSE ms.st
    IN
    Ok(Undefined, st_define(st2, st2.environment, to_string(stmt.name.value), kclass))

visit_function_stmt(st, stmt) ==
    Ok(Undefined,
       st_define(st, st.environment, to_string(stmt.name.value),
                 LoxFunction_new(stmt, st.environment, "Function")))

visit_if_stmt(st, stmt) ==
    LET condition == Interpreter_call("evaluate", <<st, stmt.condition>>) IN
    IF condition.k # "ok" THEN condition
    ELSE IF is_truthy(condition.v)
    THEN Interpreter_call("visit_block_stmt", <<condition.st, stmt.then_branch>>)
    ELSE IF stmt.else_branch # None
    THEN Interpreter_call("visit_block_stmt", <<condition.st, stmt.else_branch>>)
    ELSE Ok(Undefined, condition.st)

visit_print_stmt(st, stmt) ==
    LET value == Interpreter_call("evaluate", <<st, stmt.expr>>) IN
    IF value.k # "ok" THEN value
    ELSE Ok(Undefined,
            [value.st EXCEPT !.writer = Append(@, Object_display(value.st, value.v))])

visit_return_stmt(st, stmt) ==
    IF stmt.value # None
    THEN LET value == Interpreter_call("evaluate", <<st, stmt.value>>) IN
         IF value.k # "ok" THEN value ELSE Return(value.v, value.st)
    ELSE Return(Nil, st)

visit_var_stmt(st, stmt) ==
    IF stmt.initializer # None
    THEN LET value == Interpreter_call("evaluate", <<st, stmt.initializer>>) IN
         IF value.k # "ok" THEN value
         ELSE Ok(Undefined, st_define(value.st, value.st.environment,
                                      to_string(stmt.name.value), value.v))
    ELSE Ok(Undefined, st_define(st, st.environment,
                                 to_string(stmt.name.value), Undefined))

\* The loop of visit_while_stmt without its Break arm: the signal is returned
\* like an error.
while_loop_passes_break(st, stmt, n) ==
    LET condition == Interpreter_call("evaluate", <<st, stmt.condition>>) IN
    IF condition.k # "ok" THEN condition
    ELSE IF ~is_truthy(condition.v) THEN Ok(Undefined, condition.st)
    ELSE IF n = 0 THEN Hang(condition.st)
    ELSE LET body == Interpreter_call("visit_block_stmt", <<condition.st, stmt.body>>) IN
         CASE body.k = "ok" -> while_loop(body.st, stmt, n - 1)
           [] body.k = "continue" -> while_loop(body.st, stmt, n - 1)
           [] OTHER -> body

\* The loop of visit_while_stmt, with n iterations left before it is cut.
while_loop(st, stmt, n) ==
    LET condition == Interpreter_call("evaluate", <<st, stmt.condition>>) IN
    IF condition.k # "ok" THEN condition
    ELSE IF ~is_truthy(condition.v) THEN Ok(Undefined, condition.st)
    ELSE IF n = 0 THEN Hang(condition.st)
    ELSE LET body == Interpreter_call("visit_block_stmt", <<condition.st, stmt.body>>) IN
         CASE body.k = "ok" -> while_loop(body.st, stmt, n - 1)
           [] body.k = "break" -> Ok(Undefined, body.st)
           [] body.k = "continue" -> while_loop(body.st, stmt, n - 1)
           [] OTHER -> body

visit_while_stmt(st, stmt) == while_loop(st, stmt, MaxLoopIters)

execute(st, stmt) ==
    CASE stmt.t = "Block" -> Interpreter_call("visit_block_stmt", <<st, stmt>>)
      [] stmt.t = "Break" -> Break(st)
      [] stmt.t = "Continue" -> Continue(st)
      [] stmt.t = "Class" -> Interpreter_call("visit_class_stmt", <<st, stmt>>)
      [] stmt.t = "Expression" -> Interpreter_call("evaluate", <<st, stmt.expr>>)
      [] stmt.t = "Function" -> Interpreter_call("visit_function_stmt", <<st, stmt>>)
      [] stmt.t = "If" -> Interpreter_call("visit_if_stmt", <<st, stmt>>)
      [] stmt.t = "Print" -> Interpreter_call("visit_print_stmt", <<st, stmt>>)
      [] stmt.t = "Return" -> Interpreter_call("visit_return_stmt", <<st, stmt>>)
      [] stmt.t = "Var" -> Interpreter_call("visit_var_stmt", <<st, stmt>>)
      [] stmt.t = "While" -> Interpreter_call("visit_while_stmt", <<st, stmt>>)

\* The method table of Interpreter_call.
Interpreter_call(method, a) ==
    CASE method = "evaluate" -> evaluate(a[1], a[2])
      [] method = "execute" -> execute(a[1], a[2])
      [] method = "execute_block" -> execute_block(a[1], a[2], a[3])
      [] method = "LoxFunction_call" -> LoxFunction_call(a[1], a[2], a[3])
      [] method = "LambdaFunction_call" -> LambdaFunction_call(a[1], a[2], a[3])
      [] method = "LoxClass_call" -> LoxClass_call(a[1], a[2], a[3])
      [] method = "callable_call" -> callable_call(a[1], a[2], a[3])
      [] method = "visit_call_expr" -> visit_call_expr(a[1], a[2])
      [] method = "visit_get_expr" -> visit_get_expr(a[1], a[2])
      [] method = "visit_set_expr" -> visit_set_expr(a[1], a[2])
      [] method = "visit_assign_expr" -> visit_assign_expr(a[1], a[2])
      [] method = "visit_binary_expr" -> visit_binary_expr(a[1], a[2])
      [] method = "visit_logical_expr" -> visit_logical_expr(a[1], a[2])
      [] method = "visit_super_expr" -> visit_super_expr(a[1], a[2])
      [] method = "visit_ternary_expr" -> visit_ternary_expr(a[1], a[2])
      [] method = "visit_unary_expr" -> visit_unary_expr(a[1], a[2])
      [] method = "visit_block_stmt" -> visit_block_stmt(a[1], a[2])
      [] method = "visit_class_stmt" -> visit_class_stmt(a[1], a[2])
      [] method = "visit_function_stmt" -> visit_function_stmt(a[1], a[2])
      [] method = "visit_if_stmt" -> visit_if_stmt(a[1], a[2])
      [] method = "visit_print_stmt" -> visit_print_stmt(a[1], a[2])
      [] method = "visit_return_stmt" -> visit_return_stmt(a[1], a[2])
      [] method = "visit_var_stmt" -> visit_var_stmt(a[1], a[2])
      [] method = "visit_while_stmt" -> visit_while_stmt(a[1], a[2])

(***************************************************************************)
(* Display of tokens and errors (src/src/token.rs, src/src/error.rs).      *)
(***************************************************************************)
Lexemes ==
    {"(", ")", "{", "}", ":", ",", ".", "-", "+", ";", "/", "*", "?", "!", "!=",
     "=", "==", ">", ">=", "<", "<=", "and", "break", "continue", "class",
     "else", "false", "fun", "for", "if", "nil", "or", "print", "return",
     "super", "this", "true", "var", "while", "eof"}

Token_display(token) ==
    IF token.id \in {"Identifier", "String", "Number"} THEN to_string(token.value)
    ELSE CHOOSE s \in Lexemes : IdOf(s) = token.id

Error_display(what, e) ==
    IF e.token.id = "Eof"
    THEN "[line " \o ToString(e.token.line) \o ":" \o ToString(e.token.column)
            \o "] " \o what \o " error at end: " \o e.message
    ELSE "[line " \o ToString(e.token.line) \o ":" \o ToString(e.token.column)
            \o "] " \o what \o " error at '" \o Token_display(e.token) \o "': "
            \o e.message

(***************************************************************************)
(* The driver (src/bin/rlox.rs, run): parse, resolve, interpret.           *)
(* Interpreter::interpret is taken one top-level statement at a time.      *)
(***************************************************************************)
Running == [k |-> "running", v |-> None]

writeln(st, line) == [st EXCEPT !.writer = Append(@, line)]

\* let statements = match parser.parse() { Ok(stmts) => stmts, Err(e) => .. }
Parse ==
    /\ pc = "parse"
    /\ \E r \in {parse} :
       IF r.k = "ok"
       THEN /\ statements' = r.v
            /\ pc' = "resolve"
            /\ UNCHANGED <<interp, outcome>>
       ELSE /\ outcome' = [k |-> r.k, v |-> r]
            /\ interp' = IF r.k = "ParsingError"
                         THEN writeln(interp, Error_display("Parsing", r))
                         ELSE interp
            /\ pc' = "done"
            /\ UNCHANGED statements
    /\ UNCHANGED <<source, tokens, resolver, idx, ret, scanner>>

\* let mut resolver = Resolver::new(interpreter); resolver.resolve_stmts(..)
Resolve ==
    /\ pc = "resolve"
    /\ \E rs \in {Resolver_call("resolve_stmts",
                              <<Resolver_new(interp.locals), statements>>)} :
       /\ resolver' = [rs EXCEPT !.locals = EmptyMap]
       /\ IF rs.err = None
          THEN /\ interp' = [interp EXCEPT !.locals = rs.locals]
               /\ pc' = "interpret"
               /\ idx' = 1
               /\ UNCHANGED outcome
          ELSE /\ interp' = writeln([interp EXCEPT !.locals = rs.locals],
                                    Error_display("Runtime", rs.err))
               /\ outcome' = [k |-> "resolve_error", v |-> rs.err]
               /\ pc' = "done"
               /\ UNCHANGED idx
    /\ UNCHANGED <<source, tokens, statements, ret, scanner>>

\* What the clock can read when a statement runs.
ClockReadings == {1, 2}

\* ret = self.execute(stmt)?, and run()'s match on the Err that ends interpret
Execute ==
    /\ pc = "interpret"
    /\ idx <= Len(statements)
    /\ \E t \in ClockReadings :
       \E r \in {Interpreter_call("execute",
                                 <<[interp EXCEPT !.now = t], statements[idx]>>)} :
         LET st == [r.st EXCEPT !.now = 0] IN
         IF r.k = "ok"
         THEN /\ ret' = r.v
              /\ idx' = idx + 1
              /\ interp' = st
              /\ UNCHANGED <<pc, outcome>>
         ELSE /\ outcome' = [k |-> r.k, v |-> r.v]
              /\ interp' = CASE r.k = "error" -> writeln(st, Error_display("Runtime", r.v))
                             [] r.k = "return" -> writeln(st, Object_display(st, r.v))
                             [] OTHER -> st
              /\ pc' = "done"
              /\ UNCHANGED <<ret, idx>>
    /\ UNCHANGED <<source, tokens, statements, resolver, scanner>>

\* Ok(ret), once every statement has run
Finish ==
    /\ pc = "interpret"
    /\ idx > Len(statements)
    /\ outcome' = [k |-> "ok", v |-> ret]
    /\ pc' = "done"
    /\ UNCHANGED <<source, tokens, statements, resolver, interp, idx, ret,
                    scanner>>

Next == Parse \/ Resolve \/ Execute \/ Finish


(***************************************************************************)
(* The programs run() is given.  A program is written as its lexemes; W    *)
(* places keywords, punctuation and identifiers, S and N the literals.     *)
(***************************************************************************)
W(words) ==
    [i \in 1..Len(words) |->
        IF words[i] \in Lexemes THEN K(words[i]) ELSE I(words[i])]

\* C1: a global (or block-local, when wrapped) a = "g", a prelude that has
\* run a call or a loop with its own a = "b", then f declared and called,
\* from the declaring scope or from a block that shadows a.
ScopeProgram(src) ==
    LET decl_a == W(<<"var", "a", "=">>) \o <<S("g")>> \o W(<<";">>)
        local_b == W(<<"var", "a", "=">>) \o <<S("b")>> \o W(<<";">>)
        prelude ==
            CASE src.prelude = "none" -> <<>>
              [] src.prelude = "call" ->
                    W(<<"fun", "r", "(", ")", "{">>) \o local_b
                        \o W(<<"}", "r", "(", ")", ";">>)
              [] src.prelude = "return" ->
                    W(<<"fun", "r", "(", ")", "{">>) \o local_b
                        \o W(<<"return", "a", ";", "}", "r", "(", ")", ";">>)
              [] src.prelude = "while" ->
                    W(<<"var", "n", "=">>) \o <<N(0)>>
                        \o W(<<";", "while", "(", "n", "<">>) \o <<N(2)>>
                        \o W(<<")", "{">>) \o local_b
                        \o W(<<"n", "=", "n", "+">>) \o <<N(1)>> \o W(<<";", "}">>)
              [] src.prelude = "break" ->
                    W(<<"while", "(", "true", ")", "{">>) \o local_b
                        \o W(<<"break", ";", "}">>)
        decl_f == W(<<"fun", "f", "(", ")", "{", "print", "(", "a", ")", ";", "}">>)
        site == IF src.site = "same" THEN W(<<"f", "(", ")", ";">>)
                ELSE W(<<"{">>) \o local_b \o W(<<"f", "(", ")", ";", "}">>)
        body == decl_a \o prelude \o decl_f \o site
    IN
    IF src.wrap THEN W(<<"{">>) \o body \o W(<<"}">>) ELSE body

ScopeSources ==
    [family : {"scope"}, wrap : BOOLEAN,
     prelude : {"none", "call", "return", "while", "break"},
     site : {"same", "shadow"}]


\* print(x());
PrintCall(x) == W(<<"print", "(", x, "(", ")", ")", ";">>)

RECURSIVE PrintCalls(_)
PrintCalls(calls) ==
    IF calls = <<>> THEN <<>>
    ELSE PrintCall(Head(calls)) \o PrintCalls(Tail(calls))

\* C2: mk returns a counter closure; f (and g, when src.two) each hold the
\* closure of one call of mk, and src.calls is the order they are called in.
CounterProgram(src) ==
    W(<<"fun", "mk", "(", ")", "{", "var", "c", "=">>) \o <<N(0)>>
        \o W(<<";", "fun", "inc", "(", ")", "{", "c", "=", "c", "+">>) \o <<N(1)>>
        \o W(<<";", "return", "c", ";", "}", "return", "inc", ";", "}">>)
        \o W(<<"var", "f", "=", "mk", "(", ")", ";">>)
        \o (IF src.two THEN W(<<"var", "g", "=", "mk", "(", ")", ";">>) ELSE <<>>)
        \o PrintCalls(src.calls)

MaxCalls == 3

CounterSources ==
    { [family |-> "counter", two |-> two, calls |-> calls] :
        two \in BOOLEAN,
        calls \in UNION { [1..n -> {"f", "g"}] : n \in 0..MaxCalls } }
    \ { src \in [family : {"counter"}, two : {FALSE},
                 calls : UNION { [1..n -> {"f", "g"}] : n \in 0..MaxCalls }] :
          \E i \in DOMAIN src.calls : src.calls[i] = "g" }

\* The condition p of C3's loop: never true, true at index k, always true,
\* or true the first time it is evaluated and false from then on.
LoopPredicate(src) ==
    CASE src.p = "never" -> W(<<"false">>)
      [] src.p = "at" -> W(<<"i", "==">>) \o <<N(src.k)>>
      [] src.p = "always" -> W(<<"true">>)
      [] src.p = "first" ->
            W(<<"(", "seen", "=", "seen", "+">>) \o <<N(1)>> \o W(<<")", "==">>)
                \o <<N(1)>>

\* C3: while(true){break;}, or
\* for(var i=0;i<n;i=i+1){ if(p){continue;} print(i); }, then print("end");
LoopProgram(src) ==
    (IF src.shape = "while"
     THEN W(<<"while", "(", "true", ")", "{", "break", ";", "}">>)
     ELSE W(<<"var", "seen", "=">>) \o <<N(0)>>
            \o W(<<";", "for", "(", "var", "i", "=">>) \o <<N(0)>>
            \o W(<<";", "i", "<">>) \o <<N(src.n)>>
            \o W(<<";", "i", "=", "i", "+">>) \o <<N(1)>>
            \o W(<<")", "{", "if", "(">>) \o LoopPredicate(src)
            \o W(<<")", "{", "continue", ";", "}", "print", "(", "i", ")", ";", "}">>))
    \o W(<<"print", "(">>) \o <<S("end")>> \o W(<<")", ";">>)

MaxN == 3

LoopSources ==
    { [family |-> "loop", shape |-> "while", n |-> 0, p |-> "never", k |-> 0] }
    \cup { [family |-> "loop", shape |-> "for", n |-> n, p |-> p, k |-> k] :
             n \in 0..MaxN, p \in {"never", "at", "always", "first"}, k \in 0..(MaxN - 1) }


\* C4: class P { set(v) { this.x = v; } }  var o = P();  [o.x = 0;]
\* then o.set(5); or var m = o.set; m(5);  then print(o.x);
IdentityProgram(src) ==
    W(<<"class", "P", "{", "set", "(", "v", ")", "{", "this", ".", "x", "=", "v",
        ";", "}", "}", "var", "o", "=", "P", "(", ")", ";">>)
        \o (IF src.preset THEN W(<<"o", ".", "x", "=">>) \o <<N(0)>> \o W(<<";">>)
            ELSE <<>>)
        \o (IF src.via = "direct"
            THEN W(<<"o", ".", "set", "(">>) \o <<N(5)>> \o W(<<")", ";">>)
            ELSE W(<<"var", "m", "=", "o", ".", "set", ";", "m", "(">>) \o <<N(5)>>
                    \o W(<<")", ";">>))
        \o W(<<"print", "(", "o", ".", "x", ")", ";">>)

IdentitySources ==
    [family : {"identity"}, preset : BOOLEAN, via : {"direct", "stored"}]

\* fun h() { return 1; }
Helper == W(<<"fun", "h", "(", ")", "{", "return">>) \o <<N(1)>> \o W(<<";", "}">>)

\* C5: var t = nil; fun h() { return 1; }
\* class C { init(a) { t = this; [h();] this.x = a; [return;] } }
\* [class D < C {}]  var o = C(arg);  print(o.x);  t.y = 1;  print(o.y);
InitProgram(src) ==
    W(<<"var", "t", "=", "nil", ";">>) \o Helper
        \o W(<<"class", "C", "{", "init", "(", "a", ")", "{", "t", "=", "this", ";">>)
        \o (IF src.helper THEN W(<<"h", "(", ")", ";">>) ELSE <<>>)
        \o W(<<"this", ".", "x", "=", "a", ";">>)
        \o (IF src.bare_return THEN W(<<"return", ";">>) ELSE <<>>)
        \o W(<<"}", "}">>)
        \o (IF src.inherited THEN W(<<"class", "D", "<", "C", "{", "}">>) ELSE <<>>)
        \o W(<<"var", "o", "=", IF src.inherited THEN "D" ELSE "C", "(">>)
        \o <<N(src.arg)>>
        \o W(<<")", ";", "print", "(", "o", ".", "x", ")", ";", "t", ".", "y", "=">>)
        \o <<N(1)>> \o W(<<";", "print", "(", "o", ".", "y", ")", ";">>)

InitSources ==
    [family : {"init"}, helper : BOOLEAN, bare_return : BOOLEAN,
     inherited : BOOLEAN, arg : {7, 8}]

RECURSIVE Repeat(_, _)
Repeat(words, n) == IF n = 0 THEN <<>> ELSE words \o Repeat(words, n - 1)

\* C6: m is declared on A, on A's superclass G, or nowhere above B; B may
\* override it; B.t sets this.tag, calls the helper h when src.helper, and
\* returns super.m() from inside src.depth nested blocks; m returns this.tag.
SuperProgram(src) ==
    LET decl_m == W(<<"m", "(", ")", "{", "return", "this", ".", "tag", ";", "}">>)
        override == W(<<"m", "(", ")", "{", "return">>) \o <<S("B")>> \o W(<<";", "}">>)
    IN
    Helper \o W(<<"class", "G", "{">>)
        \o (IF src.where = "grand" THEN decl_m ELSE <<>>)
        \o W(<<"}", "class", "A", "<", "G", "{">>)
        \o (IF src.where = "parent" THEN decl_m ELSE <<>>)
        \o W(<<"}", "class", "B", "<", "A", "{">>)
        \o (IF src.override THEN override ELSE <<>>)
        \o W(<<"t", "(", ")", "{", "this", ".", "tag", "=">>) \o <<S("A")>> \o W(<<";">>)
        \o (IF src.helper THEN W(<<"h", "(", ")", ";">>) ELSE <<>>)
        \o Repeat(W(<<"{">>), src.depth)
        \o W(<<"return", "super", ".", "m", "(", ")", ";">>)
        \o Repeat(W(<<"}">>), src.depth)
        \o W(<<"}", "}", "print", "(", "B", "(", ")", ".", "t", "(", ")", ")", ";">>)

MaxBlockDepth == 2

SuperSources ==
    [family : {"super"}, where : {"parent", "grand", "missing"},
     override : BOOLEAN, helper : BOOLEAN, depth : 0..MaxBlockDepth]

\* C7, C8: var l = fun (a) { body };  then l(1); or var r = l(1); print(r);
\* The body returns a, prints a, is empty, or ends in the expression a.
LambdaProgram(src) ==
    W(<<"var", "l", "=", "fun", "(", "a", ")", "{">>)
        \o (CASE src.body = "return" -> W(<<"return", "a", ";">>)
              [] src.body = "print" -> W(<<"print", "(", "a", ")", ";">>)
              [] src.body = "empty" -> <<>>
              [] src.body = "expr" -> W(<<"a", ";">>))
        \o W(<<"}", ";">>)
        \o (IF src.use = "stmt" THEN W(<<"l", "(">>) \o <<N(1)>> \o W(<<")", ";">>)
            ELSE W(<<"var", "r", "=", "l", "(">>) \o <<N(1)>>
                    \o W(<<")", ";", "print", "(", "r", ")", ";">>))

LambdaSources ==
    [family : {"lambda"}, body : {"return", "print", "empty", "expr"},
     use : {"stmt", "var"}]

\* C8: a call of each kind of callable whose body has no return, as an
\* expression statement and as a variable's initializer.
CallProgram(src) ==
    LET callee ==
            CASE src.callee = "clock" -> W(<<"clock", "(", ")">>)
              [] src.callee = "function" -> W(<<"f", "(", ")">>)
              [] src.callee = "method" -> W(<<"C", "(", ")", ".", "m", "(", ")">>)
              [] src.callee = "static" -> W(<<"C", ".", "s", "(", ")">>)
              [] src.callee = "class" -> W(<<"C", "(", ")">>)
    IN
    W(<<"fun", "f", "(", ")", "{", "}", "class", "C", "{", "m", "(", ")", "{", "}",
        "class", "s", "(", ")", "{", "}", "}">>)
        \o callee \o W(<<";", "var", "x", "=">>) \o callee
        \o W(<<";", "print", "(", "x", ")", ";">>)

CallSources ==
    [family : {"call"}, callee : {"clock", "function", "method", "static", "class"}]


(***************************************************************************)
(* The token streams Parser::parse is given on its own.                    *)
(***************************************************************************)
\* C9: a statement that begins with an expression, first in the input or
\* after a variable declaration.
FirstProgram(src) ==
    (IF src.lead THEN W(<<"var", "z", "=">>) \o <<N(0)>> \o W(<<";">>) ELSE <<>>)
    \o (CASE src.first = "identifier" -> W(<<"a">>)
          [] src.first = "number" -> <<N(1)>>
          [] src.first = "string" -> <<S("s")>>
          [] src.first = "paren" -> W(<<"(">>) \o <<N(1)>> \o W(<<")">>)
          [] src.first = "minus" -> W(<<"-">>) \o <<N(1)>>
          [] src.first = "bang" -> W(<<"!", "true">>)
          [] src.first = "this" -> W(<<"this">>)
          [] src.first = "call" -> W(<<"a", "(", ")">>))
    \o W(<<";">>)

FirstSources ==
    [family : {"first"}, lead : BOOLEAN,
     first : {"identifier", "number", "string", "paren", "minus", "bang", "this",
              "call"}]

Wrappers ==
    {"while", "for", "if", "else", "block", "fun", "lambda", "method", "static",
     "getter"}

\* One construct around the statements inner.
Wrap(wrapper, inner) ==
    CASE wrapper = "while" -> W(<<"while", "(", "true", ")", "{">>) \o inner \o W(<<"}">>)
      [] wrapper = "for" ->
            W(<<"for", "(", "var", "i", "=">>) \o <<N(0)>> \o W(<<";", "i", "<">>)
                \o <<N(1)>> \o W(<<";", "i", "=", "i", "+">>) \o <<N(1)>>
                \o W(<<")", "{">>) \o inner \o W(<<"}">>)
      [] wrapper = "if" -> W(<<"if", "(", "true", ")", "{">>) \o inner \o W(<<"}">>)
      [] wrapper = "else" ->
            W(<<"if", "(", "true", ")", "{", "}", "else", "{">>) \o inner \o W(<<"}">>)
      [] wrapper = "block" -> W(<<"{">>) \o inner \o W(<<"}">>)
      [] wrapper = "fun" -> W(<<"fun", "f", "(", ")", "{">>) \o inner \o W(<<"}">>)
      [] wrapper = "lambda" ->
            W(<<"var", "l", "=", "fun", "(", ")", "{">>) \o inner \o W(<<"}", ";">>)
      [] wrapper = "method" ->
            W(<<"class", "C", "{", "m", "(", ")", "{">>) \o inner \o W(<<"}", "}">>)
      [] wrapper = "static" ->
            W(<<"class", "C", "{", "class", "s", "(", ")", "{">>) \o inner
                \o W(<<"}", "}">>)
      [] wrapper = "getter" ->
            W(<<"class", "C", "{", "g", "{">>) \o inner \o W(<<"}", "}">>)

\* wrappers[1] is the outermost construct.
RECURSIVE WrapAll(_, _)
WrapAll(wrappers, inner) ==
    IF wrappers = <<>> THEN inner
    ELSE Wrap(Head(wrappers), WrapAll(Tail(wrappers), inner))

\* C10: a break or continue statement inside src.wrappers.
ShapeProgram(src) == WrapAll(src.wrappers, W(<<src.stmt, ";">>))

MaxWrap == 2

ShapeSources ==
    { [family |-> "shape", wrappers |-> wrappers, stmt |-> stmt] :
        wrappers \in UNION { [1..n -> Wrappers] : n \in 0..MaxWrap },
        stmt \in {"break", "continue"} }

\* The constructs the resolver tells apart: Wrap's, a function named init,
\* the init method of a class, a method of a subclass.
NestWrappers ==
    {"block", "if", "fun", "fun_init", "lambda", "method", "init", "static",
     "getter", "submethod"}

Nest(wrapper, inner) ==
    CASE wrapper = "fun_init" ->
            W(<<"fun", "init", "(", ")", "{">>) \o inner \o W(<<"}">>)
      [] wrapper = "init" ->
            W(<<"class", "C", "{", "init", "(", ")", "{">>) \o inner \o W(<<"}", "}">>)
      [] wrapper = "submethod" ->
            W(<<"class", "B", "{", "}", "class", "D", "<", "B", "{", "m", "(", ")",
                "{">>) \o inner \o W(<<"}", "}">>)
      [] OTHER -> Wrap(wrapper, inner)

\* wrappers[1] is the outermost construct.
RECURSIVE NestAll(_, _)
NestAll(wrappers, inner) ==
    IF wrappers = <<>> THEN inner
    ELSE Nest(Head(wrappers), NestAll(Tail(wrappers), inner))

NestSources == UNION { [1..n -> NestWrappers] : n \in 0..MaxWrap }

\* A function or a lambda declared, and left, just before the statement.
Sibling(sibling) ==
    CASE sibling = "none" -> <<>>
      [] sibling = "fun" -> W(<<"fun", "g", "(", ")", "{", "}">>)
      [] sibling = "lambda" -> W(<<"var", "k", "=", "fun", "(", ")", "{", "}", ";">>)
      [] sibling = "class" -> W(<<"class", "K", "{", "m", "(", ")", "{", "}", "}">>)

\* C15: a return statement, with a value or without, inside src.wrappers.
ReturnProgram(src) ==
    NestAll(src.wrappers,
            Sibling(src.sibling)
                \o (IF src.value THEN W(<<"return">>) \o <<N(1)>> \o W(<<";">>)
                    ELSE W(<<"return", ";">>)))

ReturnSources ==
    { [family |-> "return", wrappers |-> wrappers, sibling |-> sibling,
       value |-> value] :
        wrappers \in NestSources, sibling \in {"none", "fun", "lambda"},
        value \in BOOLEAN }

\* C16: a use of this or of super inside src.wrappers.
SelfProgram(src) ==
    NestAll(src.wrappers,
            Sibling(src.sibling)
                \o (IF src.keyword = "this" THEN W(<<"print", "(", "this", ")", ";">>)
                    ELSE W(<<"print", "(", "super", ".", "m", ")", ";">>)))

SelfSources ==
    { [family |-> "self", wrappers |-> wrappers, sibling |-> sibling,
       keyword |-> keyword] :
        wrappers \in NestSources, sibling \in {"none", "class"},
        keyword \in {"this", "super"} }

\* An initializer expression that reads a at the named place.
Initializer(form) ==
    CASE form = "a" -> W(<<"a">>)
      [] form = "group" -> W(<<"(", "a", ")">>)
      [] form = "unary" -> W(<<"!", "a">>)
      [] form = "binary_left" -> W(<<"a", "==">>) \o <<N(1)>>
      [] form = "binary_right" -> <<N(1)>> \o W(<<"==", "a">>)
      [] form = "or_left" -> W(<<"a", "or">>) \o <<N(1)>>
      [] form = "or_right" -> W(<<"nil", "or", "a">>)
      [] form = "and_left" -> W(<<"a", "and">>) \o <<N(1)>>
      [] form = "and_right" -> W(<<"true", "and", "a">>)
      [] form = "ternary_condition" -> W(<<"a", "?">>) \o <<N(1), K(":"), N(2)>>
      [] form = "ternary_then" -> W(<<"true", "?", "a", ":">>) \o <<N(2)>>
      [] form = "ternary_else" -> W(<<"false", "?">>) \o <<N(2)>> \o W(<<":", "a">>)
      [] form = "callee" -> W(<<"a", "(", ")">>)
      [] form = "argument" -> W(<<"clock", "(", "a", ")">>)
      [] form = "get" -> W(<<"a", ".", "x">>)

InitializerForms ==
    {"a", "group", "unary", "binary_left", "binary_right", "or_left", "or_right",
     "and_left", "and_right", "ternary_condition", "ternary_then", "ternary_else",
     "callee", "argument", "get"}

\* C17: var a = <initializer reading a>; print(a); inside src.wrappers, after
\* a global a when src.outer; or, when src.form is "after", var a = "l";
\* var b = a; print(b); in the same place.
SelfUseProgram(src) ==
    (IF src.outer THEN W(<<"var", "a", "=">>) \o <<S("g")>> \o W(<<";">>) ELSE <<>>)
    \o NestAll(src.wrappers,
               IF src.form = "after"
               THEN W(<<"var", "a", "=">>) \o <<S("l")>>
                        \o W(<<";", "var", "b", "=", "a", ";", "print", "(", "b", ")", ";">>)
               ELSE W(<<"var", "a", "=">>) \o Initializer(src.form)
                        \o W(<<";", "print", "(", "a", ")", ";">>))

SelfUseScopes ==
    {<<>>, <<"block">>, <<"block", "block">>, <<"if">>, <<"fun">>, <<"fun", "block">>,
     <<"lambda">>, <<"method">>, <<"init">>}

SelfUseSources ==
    { [family |-> "selfuse", wrappers |-> wrappers, outer |-> outer, form |-> form] :
        wrappers \in SelfUseScopes, outer \in BOOLEAN,
        form \in InitializerForms \cup {"after"} }
    \ { src \in [family : {"selfuse"}, wrappers : {<<>>}, outer : {TRUE},
                 form : InitializerForms \cup {"after"}] : TRUE }

\* C18: var g = "g"; then, at src.place, a lambda whose body reads or
\* assigns g is bound to l and called; a final print(g) when it assigns.
CaptureProgram(src) ==
    LET body == IF src.body = "read" THEN W(<<"print", "(", "g", ")", ";">>)
                ELSE W(<<"g", "=">>) \o <<S("n")>> \o W(<<";">>)
        use == W(<<"var", "l", "=", "fun", "(", ")", "{">>) \o body
                  \o W(<<"}", ";", "l", "(", ")", ";">>)
    IN
    W(<<"var", "g", "=">>) \o <<S("g")>> \o W(<<";">>)
    \o (CASE src.place = "global" -> use
          [] src.place = "block" -> NestAll(<<"block">>, use)
          [] src.place = "blocks" -> NestAll(<<"block", "block">>, use)
          [] src.place = "if" -> NestAll(<<"if">>, use)
          [] src.place = "function" ->
                NestAll(<<"fun">>, use) \o W(<<"f", "(", ")", ";">>)
          [] src.place = "function_block" ->
                NestAll(<<"fun", "block">>, use) \o W(<<"f", "(", ")", ";">>)
          [] src.place = "method" ->
                NestAll(<<"method">>, use) \o W(<<"C", "(", ")", ".", "m", "(", ")", ";">>))
    \o (IF src.body = "read" THEN <<>> ELSE W(<<"print", "(", "g", ")", ";">>))

CaptureSources ==
    [family : {"capture"}, body : {"read", "assign"},
     place : {"global", "block", "blocks", "if", "function", "function_block",
              "method"}]

\* C19: var a = "g"; then a block, a loop body or a called function, method
\* or lambda body that declares its own a = "l" and ends as src.exit says;
\* then print(a);.
FrameProgram(src) ==
    LET local == W(<<"var", "a", "=">>) \o <<S("l")>> \o W(<<";">>)
        body == local \o (IF src.exit = "return" THEN W(<<"return", ";">>)
                          ELSE IF src.exit = "break" THEN W(<<"break", ";">>)
                          ELSE IF src.exit = "continue" THEN W(<<"continue", ";">>)
                          ELSE <<>>)
    IN
    W(<<"var", "a", "=">>) \o <<S("g")>> \o W(<<";">>)
    \o (CASE src.frame = "block" -> Nest("block", body)
          [] src.frame = "function" -> Nest("fun", body) \o W(<<"f", "(", ")", ";">>)
          [] src.frame = "lambda" -> Nest("lambda", body) \o W(<<"l", "(", ")", ";">>)
          [] src.frame = "method" ->
                Nest("method", body) \o W(<<"C", "(", ")", ".", "m", "(", ")", ";">>)
          [] src.frame = "loop" ->
                W(<<"var", "i", "=">>) \o <<N(0)>> \o W(<<";", "while", "(", "i", "<">>)
                    \o <<N(1)>> \o W(<<")", "{", "i", "=", "i", "+">>) \o <<N(1)>>
                    \o W(<<";">>) \o body \o W(<<"}">>))
    \o W(<<"print", "(", "a", ")", ";">>)

FrameSources ==
    { [family |-> "frame", frame |-> frame, exit |-> exit] :
        frame \in {"block", "function", "lambda", "method"}, exit \in {"end"} }
    \cup { [family |-> "frame", frame |-> frame, exit |-> "return"] :
             frame \in {"function", "lambda", "method"} }
    \cup { [family |-> "frame", frame |-> "loop", exit |-> exit] :
             exit \in {"end", "break", "continue"} }

\* C21: a for statement with each of its three clauses present or omitted,
\* over an empty or a one-statement body.
ForProgram(src) ==
    W(<<"for", "(">>)
    \o (CASE src.initializer = "none" -> W(<<";">>)
          [] src.initializer = "var" -> W(<<"var", "i", "=">>) \o <<N(0)>> \o W(<<";">>)
          [] src.initializer = "expression" -> W(<<"i", "=">>) \o <<N(0)>> \o W(<<";">>))
    \o (IF src.condition THEN W(<<"i", "<">>) \o <<N(1)>> ELSE <<>>)
    \o W(<<";">>)
    \o (IF src.increment THEN W(<<"i", "=", "i", "+">>) \o <<N(1)>> ELSE <<>>)
    \o W(<<")", "{">>)
    \o (IF src.body THEN W(<<"print", "(", "i", ")", ";">>) ELSE <<>>)
    \o W(<<"}">>)

ForSources ==
    [family : {"for"}, initializer : {"none", "var", "expression"},
     condition : BOOLEAN, increment : BOOLEAN, body : BOOLEAN]

\* C22: a class with one member: with or without the class keyword, named
\* init or m, with a parameter list or with the body directly after the name.
MemberProgram(src) ==
    W(<<"class", "A", "{">>)
    \o (IF src.keyword THEN W(<<"class">>) ELSE <<>>)
    \o W(<<src.name>>)
    \o (IF src.parens THEN W(<<"(", ")">>) ELSE <<>>)
    \o W(<<"{", "}", "}">>)

MemberSources ==
    [family : {"member"}, keyword : BOOLEAN, name : {"init", "m"}, parens : BOOLEAN]

\* n as a member of a class: a getter or a method that returns this.<tag>.
Property(kind, tag) ==
    CASE kind = "none" -> <<>>
      [] kind = "getter" -> W(<<"n", "{", "return", "this", ".", tag, ";", "}">>)
      [] kind = "method" ->
            W(<<"n", "(", ")", "{", "return", "this", ".", tag, ";", "}">>)

\* C23: class B { <super n> }  class A < B { <member n> }  var o = A();
\* o.tag = "g"; o.stag = "sg"; [o.n = "f";]  var v = o.n;  print(v);
PropertyProgram(src) ==
    W(<<"class", "B", "{">>) \o Property(src.super, "stag") \o W(<<"}">>)
    \o W(<<"class", "A", "<", "B", "{">>) \o Property(src.member, "tag") \o W(<<"}">>)
    \o W(<<"var", "o", "=", "A", "(", ")", ";">>)
    \o W(<<"o", ".", "tag", "=">>) \o <<S("g")>> \o W(<<";">>)
    \o W(<<"o", ".", "stag", "=">>) \o <<S("sg")>> \o W(<<";">>)
    \o (IF src.field THEN W(<<"o", ".", "n", "=">>) \o <<S("f")>> \o W(<<";">>)
        ELSE <<>>)
    \o W(<<"var", "v", "=", "o", ".", "n", ";", "print", "(", "v", ")", ";">>)

PropertySources ==
    [family : {"property"}, member : {"none", "getter", "method"},
     super : {"none", "getter", "method"}, field : BOOLEAN]

\* C24: class A { n { <target>.f = "w"; return "g"; } }  [class C < A {}]
\* var other = A();  var o = A(); (or C())  [o.f = "p";]
\* print(o.n);  print(<target>.f);     target is this (o) or other
GetterWriteProgram(src) ==
    LET target == IF src.target = "this" THEN "this" ELSE "other"
        read == IF src.target = "this" THEN "o" ELSE "other"
    IN
    W(<<"class", "A", "{", "n", "{", target, ".", "f", "=">>) \o <<S("w")>>
    \o W(<<";", "return">>) \o <<S("g")>> \o W(<<";", "}", "}">>)
    \o (IF src.inherited THEN W(<<"class", "C", "<", "A", "{", "}">>) ELSE <<>>)
    \o W(<<"var", "other", "=", "A", "(", ")", ";">>)
    \o W(<<"var", "o", "=", IF src.inherited THEN "C" ELSE "A", "(", ")", ";">>)
    \o (IF src.preset THEN W(<<"o", ".", "f", "=">>) \o <<S("p")>> \o W(<<";">>)
        ELSE <<>>)
    \o W(<<"print", "(", "o", ".", "n", ")", ";">>)
    \o W(<<"print", "(", read, ".", "f", ")", ";">>)

GetterWriteSources ==
    [family : {"getter_write"}, target : {"this", "other"}, inherited : BOOLEAN,
     preset : BOOLEAN]

\* C25: var n = "n";  [var l = "s";]  then, at top level, in a block or in
\* the body of a called function:
\*     var l = <left>;  print(l <operator> (n = "r"));  print(n);
LogicalProgram(src) ==
    LET left == CASE src.left = "string" -> <<S("l")>>
                  [] src.left = "nil" -> W(<<"nil">>)
                  [] src.left = "false" -> W(<<"false">>)
        body == W(<<"var", "l", "=">>) \o left \o W(<<";">>)
                \o W(<<"print", "(", "l", src.operator, "(", "n", "=">>) \o <<S("r")>>
                \o W(<<")", ")", ";", "print", "(", "n", ")", ";">>)
    IN
    W(<<"var", "n", "=">>) \o <<S("n")>> \o W(<<";">>)
    \o (IF src.shadow THEN W(<<"var", "l", "=">>) \o <<S("s")>> \o W(<<";">>)
        ELSE <<>>)
    \o (CASE src.place = "global" -> body
          [] src.place = "block" -> W(<<"{">>) \o body \o W(<<"}">>)
          [] src.place = "function" ->
                W(<<"fun", "f", "(", ")", "{">>) \o body
                \o W(<<"}", "f", "(", ")", ";">>))

LogicalSources ==
    { src \in [family : {"logical"}, operator : {"or", "and"},
               left : {"string", "nil", "false"},
               place : {"global", "block", "function"}, shadow : BOOLEAN] :
        src.place = "global" => ~src.shadow }

\* C26: var a = <tail>, the token stream ending (with its Eof) right after
\* the tail.
TruncatedProgram(src) ==
    W(<<"var", "a", "=">>)
    \o (CASE src.tail = "empty" -> <<>>
          [] src.tail = "paren" -> W(<<"(">>)
          [] src.tail = "parens" -> W(<<"(", "(">>)
          [] src.tail = "call" -> W(<<"f", "(">>)
          [] src.tail = "open" -> W(<<"(">>) \o <<N(1)>>
          [] src.tail = "plus" -> <<N(1)>> \o W(<<"+">>)
          [] src.tail = "minus" -> W(<<"-">>)
          [] src.tail = "comma" -> W(<<"f", "(">>) \o <<N(1)>> \o W(<<",">>)
          [] src.tail = "number" -> <<N(1)>>)

TruncatedSources ==
    [family : {"truncated"},
     tail : {"empty", "paren", "parens", "call", "open", "plus", "minus", "comma",
             "number"}]

\* C27: var i = 0; var o = 0; then a loop over i < 2 whose body is
\*     i = i + 1;  <break or continue, bare or guarded>  print("in");
\* at top level, in the body of a called function, method or lambda, or as
\* the inner loop of  while (o < 2) { o = o + 1; <loop> print("out"); },
\* then print(i);
SignalProgram(src) ==
    LET guarded ==
            CASE src.guard = "bare" -> W(<<src.stmt, ";">>)
              [] src.guard = "if" -> W(<<"if", "(", "true", ")", "{", src.stmt, ";", "}">>)
              [] src.guard = "else" ->
                    W(<<"if", "(", "false", ")", "{", "}", "else", "{", src.stmt, ";",
                        "}">>)
              [] src.guard = "block" -> W(<<"{", src.stmt, ";", "}">>)
        head == IF src.loop = "while"
                THEN W(<<"while", "(", "i", "<">>) \o <<N(2)>> \o W(<<")", "{">>)
                ELSE W(<<"for", "(", "var", "k", "=">>) \o <<N(0)>>
                     \o W(<<";", "i", "<">>) \o <<N(2)>>
                     \o W(<<";", "k", "=">>) \o <<N(1)>> \o W(<<")", "{">>)
        loop == head \o W(<<"i", "=", "i", "+">>) \o <<N(1)>> \o W(<<";">>)
                \o guarded
                \o W(<<"print", "(">>) \o <<S("in")>> \o W(<<")", ";", "}">>)
    IN
    W(<<"var", "i", "=">>) \o <<N(0)>> \o W(<<";", "var", "o", "=">>) \o <<N(0)>>
    \o W(<<";">>)
    \o (CASE src.site = "top" -> loop
          [] src.site = "function" ->
                W(<<"fun", "f", "(", ")", "{">>) \o loop \o W(<<"}", "f", "(", ")", ";">>)
          [] src.site = "method" ->
                W(<<"class", "A", "{", "m", "(", ")", "{">>) \o loop
                \o W(<<"}", "}", "A", "(", ")", ".", "m", "(", ")", ";">>)
          [] src.site = "lambda" ->
                W(<<"var", "g", "=", "fun", "(", ")", "{">>) \o loop
                \o W(<<"}", ";", "g", "(", ")", ";">>)
          [] src.site = "nested" ->
                W(<<"while", "(", "o", "<">>) \o <<N(2)>>
                \o W(<<")", "{", "o", "=", "o", "+">>) \o <<N(1)>> \o W(<<";">>)
                \o loop
                \o W(<<"print", "(">>) \o <<S("out")>> \o W(<<")", ";", "}">>))
    \o W(<<"print", "(", "i", ")", ";">>)

SignalSources ==
    [family : {"signal"}, stmt : {"break", "continue"},
     guard : {"bare", "if", "else", "block"}, loop : {"while", "for"},
     site : {"top", "function", "method", "lambda", "nested"}]

\* C28: class B { m() {} }  class A [< B] { class s() { print(<self>); } }
\* with self one of this and super.m, the declaration of A at top level or in
\* the body of a method of another class.
StaticSelfProgram(src) ==
    LET self == IF src.keyword = "this" THEN W(<<"this">>)
                ELSE W(<<"super", ".", "m">>)
        class == W(<<"class", "A">>)
                 \o (IF src.superclass THEN W(<<"<", "B">>) ELSE <<>>)
                 \o W(<<"{", "class", "s", "(", ")", "{", "print", "(">>) \o self
                 \o W(<<")", ";", "}", "}">>)
    IN
    W(<<"class", "B", "{", "m", "(", ")", "{", "}", "}">>)
    \o (IF src.outer = "method"
        THEN W(<<"class", "O", "{", "m", "(", ")", "{">>) \o class \o W(<<"}", "}">>)
        ELSE class)

StaticSelfSources ==
    [family : {"static_self"}, keyword : {"this", "super"}, superclass : BOOLEAN,
     outer : {"none", "method"}]

\* C29: var g = "g";  class B {}  class A [< B] {
\*     class s(p) { var l = "l"; print(<target>); } }  A.s("p");
\* with target one of g, A, p and l.
StaticReadProgram(src) ==
    W(<<"var", "g", "=">>) \o <<S("g")>> \o W(<<";", "class", "B", "{", "}">>)
    \o W(<<"class", "A">>) \o (IF src.superclass THEN W(<<"<", "B">>) ELSE <<>>)
    \o W(<<"{", "class", "s", "(", "p", ")", "{", "var", "l", "=">>) \o <<S("l")>>
    \o W(<<";", "print", "(", src.target, ")", ";", "}", "}">>)
    \o W(<<"A", ".", "s", "(">>) \o <<S("p")>> \o W(<<")", ";">>)

StaticReadSources ==
    [family : {"static_read"}, target : {"g", "A", "p", "l"}, superclass : BOOLEAN]

ParserSources ==
    FirstSources \cup ShapeSources \cup ForSources \cup MemberSources
        \cup TruncatedSources

Sources ==
    ScopeSources \cup CounterSources \cup LoopSources \cup IdentitySources
        \cup InitSources \cup SuperSources \cup LambdaSources \cup CallSources
        \cup ReturnSources \cup SelfSources \cup SelfUseSources
        \cup CaptureSources \cup FrameSources \cup PropertySources
        \cup GetterWriteSources \cup LogicalSources \cup SignalSources
        \cup StaticSelfSources \cup StaticReadSources

Program(src) ==
    CASE src.family = "scope" -> ScopeProgram(src)
      [] src.family = "counter" -> CounterProgram(src)
      [] src.family = "loop" -> LoopProgram(src)
      [] src.family = "identity" -> IdentityProgram(src)
      [] src.family = "init" -> InitProgram(src)
      [] src.family = "super" -> SuperProgram(src)
      [] src.family = "lambda" -> LambdaProgram(src)
      [] src.family = "call" -> CallProgram(src)
      [] src.family = "first" -> FirstProgram(src)
      [] src.family = "shape" -> ShapeProgram(src)
      [] src.family = "for" -> ForProgram(src)
      [] src.family = "static_read" -> StaticReadProgram(src)
      [] src.family = "static_self" -> StaticSelfProgram(src)
      [] src.family = "signal" -> SignalProgram(src)
      [] src.family = "truncated" -> TruncatedProgram(src)
      [] src.family = "logical" -> LogicalProgram(src)
      [] src.family = "property" -> PropertyProgram(src)
      [] src.family = "getter_write" -> GetterWriteProgram(src)
      [] src.family = "member" -> MemberProgram(src)
      [] src.family = "return" -> ReturnProgram(src)
      [] src.family = "self" -> SelfProgram(src)
      [] src.family = "selfuse" -> SelfUseProgram(src)
      [] src.family = "capture" -> CaptureProgram(src)
      [] src.family = "frame" -> FrameProgram(src)

Init ==
    /\ source \in Sources
    /\ tokens = Tokenize(Program(source))
    /\ pc = "parse"
    /\ statements = <<>>
    /\ resolver = None
    /\ interp = Interpreter_new
    /\ idx = 0
    /\ ret = Undefined
    /\ outcome = Running
    /\ scanner = None

Spec == Init /\ [][Next]_vars

\* Parser::parse on its own, on the streams of ParserSources.
ParserInit ==
    /\ source \in ParserSources
    /\ tokens = Tokenize(Program(source))
    /\ pc = "parse"
    /\ statements = <<>>
    /\ resolver = None
    /\ interp = Interpreter_new
    /\ idx = 0
    /\ ret = Undefined
    /\ outcome = Running
    /\ scanner = None

ParserNext == Parse

SpecParser == ParserInit /\ [][ParserNext]_vars


(***************************************************************************)
(* The prompt loop (src/bin/rlox.rs, run_prompt): one Interpreter and one  *)
(* Resolver serve every input line.  A session is the lines typed; a       *)
(* writer entry is one write.                                              *)
(***************************************************************************)
\* Interpreter::interpret on a whole input.
interpret(st, stmts) == execute_stmts_from(st, stmts, 1, Undefined)

\* Display for RuntimeException
RuntimeException_display(st, r) ==
    CASE r.k = "error" -> Error_display("Runtime", r.v)
      [] r.k = "return" -> Object_display(st, r.v)
      [] r.k = "break" -> "break"
      [] r.k = "continue" -> "continue"

\* The lines of the sessions, by name.
ReplLine(name) ==
    CASE name = "var_a" -> W(<<"var", "a", "=">>) \o <<S("g")>> \o W(<<";">>)
      [] name = "var_a_fun" ->
            W(<<"var", "a", "=">>) \o <<S("g")>>
                \o W(<<";", "fun", "h", "(", ")", "{", "return", "a", ";", "}">>)
      [] name = "empty" -> <<>>
      [] name = "print_a" -> W(<<"print", "(", "a", ")", ";">>)
      [] name = "return" -> W(<<"return", ";">>)
      [] name = "print_this" -> W(<<"print", "(", "this", ")", ";">>)
      [] name = "block_print_a" -> W(<<"{", "print", "(", "a", ")", ";", "}">>)
      [] name = "var_c" ->
            W(<<"var", "c", "=">>) \o <<S("c")>>
                \o W(<<";", "print", "(", "c", ")", ";">>)
      [] name = "bad_parse" -> W(<<"var", "=", ";">>)
      [] name = "bad_fun" ->
            W(<<"fun", "f", "(", ")", "{", "var", "b", "=", "b", ";", "}">>)
      [] name = "bad_method" ->
            W(<<"class", "B", "{", "m", "(", ")", "{", "var", "b", "=", "b",
                ";", "}", "}">>)
      [] name = "bad_lambda" ->
            W(<<"var", "l", "=", "fun", "(", ")", "{", "var", "b", "=", "b",
                ";", "}", ";">>)
      [] name = "bad_block" -> W(<<"{", "var", "b", "=", "b", ";", "}">>)
      [] name = "bad_global" -> W(<<"var", "b", "=", "b", ";">>)
      [] name = "fail" -> W(<<"a", "(", ")", ";">>)
      [] name = "fail_block" ->
            W(<<"{", "var", "a", "=">>) \o <<S("b")>>
                \o W(<<";", "a", "(", ")", ";", "}">>)
      [] name = "fail_blocks" ->
            W(<<"{", "{", "var", "a", "=">>) \o <<S("b")>>
                \o W(<<";", "a", "(", ")", ";", "}", "}">>)
      [] name = "fail_fun" ->
            W(<<"fun", "g", "(", ")", "{", "var", "a", "=">>) \o <<S("b")>>
                \o W(<<";", "a", "(", ")", ";", "}", "g", "(", ")", ";">>)
      [] name = "fail_fun_block" ->
            W(<<"fun", "g", "(", ")", "{", "{", "var", "a", "=">>) \o <<S("b")>>
                \o W(<<";", "a", "(", ")", ";", "}", "}", "g", "(", ")", ";">>)
      [] name = "inner" ->
            W(<<"{", "var", "a", "=">>) \o <<S("b")>>
                \o W(<<";", "{", "print", "(", "a", ")", ";", "}", "}">>)
      [] name = "outer" ->
            W(<<"{", "{", "var", "a", "=">>) \o <<S("c")>>
                \o W(<<";", "print", "(", "a", ")", ";", "}", "}">>)
      [] name = "def_f" ->
            W(<<"fun", "f", "(", ")", "{", "var", "a", "=">>) \o <<S("l")>>
                \o W(<<";", "print", "(", "a", ")", ";", "}">>)
      [] name = "aligned" ->
            W(<<"var", "a", "=">>) \o <<S("g")>>
                \o W(<<";", "{", "}", "{", "}", "{", "print", "(", "a", ")", ";", "}">>)
      [] name = "call_f" -> W(<<"print", "(", "f", "(", ")", ")", ";">>)

\* What the resolver rejects, what fails at run time, what is asked next.
ReplFirst == {"var_a", "var_a_fun", "empty"}
ReplRejected == {"return", "bad_fun", "bad_method", "bad_lambda", "bad_block",
                 "bad_global", "bad_parse"}
ReplFailing == {"fail", "fail_block", "fail_blocks", "fail_fun", "fail_fun_block"}
ReplProbes == {"print_a", "return", "print_this", "block_print_a", "var_c"}

\* Lines that read a: at top level, in one block, in the inner of two blocks
\* with a declared in the outer one or in the inner one.
ReplReaders == {"print_a", "block_print_a", "inner", "outer"}

ReplSources ==
    { [family |-> "repl", lines |-> <<first, second, third>>] :
        first \in ReplFirst, second \in ReplRejected \cup ReplFailing,
        third \in ReplProbes }
    \cup { [family |-> "repl", lines |-> <<"var_a", second, third>>] :
              second \in ReplReaders, third \in ReplReaders }
    \cup { [family |-> "repl", lines |-> <<"def_f", "aligned", "call_f">>] }

\* let mut interpreter = Interpreter::new(..); let mut resolver = Resolver::new(..)
ReplInit ==
    /\ source \in ReplSources
    /\ tokens = <<>>
    /\ pc = "prompt"
    /\ statements = <<>>
    /\ resolver = Resolver_new(EmptyMap)
    /\ interp = Interpreter_new
    /\ idx = 1
    /\ ret = Undefined
    /\ outcome = Running
    /\ scanner = None

\* write!(writer, "> "), read_line, Scanner::new(&input).into_iter().collect()
read_line ==
    /\ pc = "prompt"
    /\ idx <= Len(source.lines)
    /\ interp' = writeln(interp, "> ")
    /\ tokens' = Tokenize(ReplLine(source.lines[idx]))
    /\ pc' = "run"
    /\ UNCHANGED <<source, statements, resolver, idx, ret, outcome, scanner>>

\* The rest of the loop body: parse, resolve_stmts, interpret, each with its
\* writeln and continue.  A panic ends the process.
run_prompt ==
    /\ pc = "run"
    /\ \E p \in {parse} :
       IF p.k # "ok"
       THEN /\ outcome' = [k |-> p.k, v |-> p]
            /\ interp' = IF p.k = "ParsingError"
                         THEN writeln(interp, Error_display("Parsing", p))
                         ELSE interp
            /\ pc' = IF p.k = "ParsingError" THEN "prompt" ELSE "done"
            /\ UNCHANGED <<statements, resolver, ret>>
       ELSE
       \E rs \in {Resolver_call("resolve_stmts",
                                <<[resolver EXCEPT !.locals = interp.locals,
                                                   !.err = None], p.v>>)} :
         /\ statements' = p.v
         /\ resolver' = [rs EXCEPT !.locals = EmptyMap]
         /\ IF rs.err # None
            THEN /\ interp' = writeln([interp EXCEPT !.locals = rs.locals],
                                      Error_display("Runtime", rs.err))
                 /\ outcome' = [k |-> "resolve_error", v |-> rs.err]
                 /\ pc' = "prompt"
                 /\ UNCHANGED ret
            ELSE
            \E t \in ClockReadings :
            \E r \in {interpret([interp EXCEPT !.locals = rs.locals, !.now = t],
                                p.v)} :
              LET st == [r.st EXCEPT !.now = 0] IN
              /\ outcome' = [k |-> r.k, v |-> r.v]
              /\ ret' = IF r.k = "ok" THEN r.v ELSE ret
              /\ interp' = IF r.k \in {"error", "return", "break", "continue"}
                           THEN writeln(st, RuntimeException_display(st, r))
                           ELSE st
              /\ pc' = IF r.k \in {"ok", "error", "return", "break", "continue"}
                       THEN "prompt" ELSE "done"
    /\ idx' = idx + 1
    /\ UNCHANGED <<source, tokens, scanner>>

ReplNext == read_line \/ run_prompt

SpecRepl == ReplInit /\ [][ReplNext]_vars


\* Display for Token, as characters
Token_chars(token) ==
    CASE token.id \in {"Identifier", "String"} -> token.value.s
      [] token.id = "Number" -> f64_display(token.value)
      [] token.id = "Comment" -> Chars("// Comment")
      [] OTHER -> Chars(CHOOSE s \in Lexemes : IdOf(s) = token.id)

(***************************************************************************)
(* The scanner on its own: Scanner::new on a source, then one poll of the  *)
(* iterator per step, as collect() makes them and beyond.                  *)
(***************************************************************************)
\* The longest source, and the polls made of one scanner.
MaxSourceLen == 4
MaxPolls == MaxSourceLen + 3

ScannerAlphabet == {"1", ".", "i", "f", " ", "\"", "/", "\n", "="}

ScannerSources ==
    { [family |-> "scan", chars |-> chars] :
        chars \in UNION { [1..n -> ScannerAlphabet] : n \in 0..MaxSourceLen } }

ScannerInit ==
    /\ source \in ScannerSources
    /\ scanner = Scanner_new(source.chars)
    /\ tokens = <<>>
    /\ pc = "scan"
    /\ statements = <<>>
    /\ resolver = None
    /\ interp = Interpreter_new
    /\ idx = 0
    /\ ret = Undefined
    /\ outcome = Running

\* scanner.next(): Some(token) joins the collected tokens; a panic ends the
\* process.
poll ==
    /\ pc = "scan"
    /\ idx < MaxPolls
    /\ \E r \in {Scanner_next(scanner)} :
         /\ scanner' = r.sc
         /\ tokens' = IF r.k = "some" THEN Append(tokens, r.v) ELSE tokens
         /\ outcome' = [k |-> r.k, v |-> None]
         /\ pc' = IF r.k = "panic" THEN "done" ELSE "scan"
    /\ idx' = idx + 1
    /\ UNCHANGED <<source, statements, resolver, interp, ret>>

ScannerNext == poll

SpecScanner == ScannerInit /\ [][ScannerNext]_vars

\* collect() polls until the iterator yields None.
SpecScannerLive == SpecScanner /\ WF_vars(poll)


(***************************************************************************)
(* Claims.                                                                 *)
(***************************************************************************)
Done == pc = "done"
Succeeded == Done /\ outcome.k = "ok"

\* C1: a free variable of a declared function reads the binding of the scope
\* that lexically encloses the declaration, whatever the call site shadows
\* and whatever calls or loops ran before: every program of the scope family
\* ends successfully having printed "g" and nothing else.
C1_LexicalScoping ==
    (source.family = "scope" /\ Done) =>
        (outcome.k = "ok" /\ interp.writer = <<"g">>)

\* The i-th call of a counter prints how often that counter has been called.
CounterExpected(calls) ==
    [i \in 1..Len(calls) |->
        ToString(Cardinality({j \in 1..i : calls[j] = calls[i]}))]

\* C2: closures returned by different calls of mk count independently and
\* can be called in any interleaving: every program of the counter family
\* ends successfully, each call having printed its own counter's next value.
C2_ClosureState ==
    (source.family = "counter" /\ Done) =>
        (outcome.k = "ok" /\ interp.writer = CounterExpected(source.calls))

\* Whether C3's predicate p is true at index i.
LoopSkips(src, i) ==
    CASE src.p = "never" -> FALSE
      [] src.p = "at" -> i = src.k
      [] src.p = "always" -> TRUE
      [] src.p = "first" -> i = 0

RECURSIVE LoopExpectedFrom(_, _)
LoopExpectedFrom(src, i) ==
    IF i >= src.n THEN <<"end">>
    ELSE (IF LoopSkips(src, i) THEN <<>> ELSE <<ToString(i)>>)
            \o LoopExpectedFrom(src, i + 1)

\* C3: while(true){break;} terminates, and the for loop terminates after
\* running its body once for each index where p is false, in increasing
\* order: every program of the loop family ends successfully having printed
\* exactly those indices and then "end".
C3_LoopControl ==
    (source.family = "loop" /\ Done) =>
        /\ outcome.k = "ok"
        /\ interp.writer = IF source.shape = "while" THEN <<"end">>
                           ELSE LoopExpectedFrom(source, 0)

\* C4: the `this` of a method read off obj is obj itself, so a field the
\* method assigns through `this` is read back by obj.field: every program of
\* the identity family ends successfully having printed 5.
C4_InstanceIdentity ==
    (source.family = "identity" /\ Done) =>
        (outcome.k = "ok" /\ interp.writer = <<"5">>)

\* C5: C(args) runs init with the arguments and returns the instance that
\* was `this` inside init, with or without a bare return: every program of
\* the init family ends successfully, o.x printing the argument and o.y the
\* field assigned through the `this` that init saved.
C5_InitializerReturn ==
    (source.family = "init" /\ Done) =>
        (outcome.k = "ok" /\ interp.writer = <<ToString(source.arg), "1">>)

\* C6: inside a method of B < A, super.m is the m of A's chain bound to the
\* executing method's `this`, at every block depth, and the runtime error
\* "Undefined property." when A's chain has no m: every program of the
\* super family prints the tag set through `this`, or ends in that error.
C6_InheritanceLookup ==
    (source.family = "super" /\ Done) =>
        IF source.where = "missing"
        THEN outcome.k = "error" /\ outcome.v.message = "Undefined property."
        ELSE outcome.k = "ok" /\ interp.writer = <<"A">>

\* C7: for a program the parser and the resolver accepted, interpret never
\* returns a Return, Break or Continue signal to the driver.
C7_NoSignalReachesDriver ==
    (Done /\ idx >= 1) => outcome.k \notin {"return", "break", "continue"}

\* C8: Undefined is never the value of a successfully evaluated expression:
\* after a top-level expression statement has succeeded its value is not
\* Undefined, and after `var x = e;` has succeeded the slot of x does not
\* hold Undefined.
C8_UndefinedNeverAValue ==
    (pc = "interpret" /\ idx > 1) =>
        LET stmt == statements[idx - 1] IN
        /\ stmt.t = "Expression" => ret # Undefined
        /\ (stmt.t = "Var" /\ stmt.initializer # None) =>
              interp.envs[interp.environment].values[to_string(stmt.name.value)]
                  # Undefined

\* C9: parse returns the statement list or a ParsingError and reads no
\* position outside the stream, and an input that begins with an expression
\* statement is parsed into an Expression statement.
C9_ParseReturns ==
    (pc # "parse") =>
        /\ outcome.k \in {"running", "ParsingError"}
        /\ source.family = "first" =>
              (pc = "resolve" /\ statements[Len(statements)].t = "Expression")

\* Whether the statement inside the wrappers is in a loop body with no
\* function, method or lambda body between it and the loop.
RECURSIVE InLoop(_, _)
InLoop(wrappers, in_loop) ==
    IF wrappers = <<>> THEN in_loop
    ELSE InLoop(Tail(wrappers),
                CASE Head(wrappers) \in {"while", "for"} -> TRUE
                  [] Head(wrappers) \in {"if", "else", "block"} -> in_loop
                  [] OTHER -> FALSE)

\* C10: the parser accepts break or continue exactly when it is lexically in
\* a loop body with no function, method or lambda body in between, and
\* returns the ParsingError about that keyword in every other position.
C10_BreakContinueContext ==
    (source.family = "shape" /\ pc # "parse") =>
        IF InLoop(source.wrappers, FALSE)
        THEN pc = "resolve" /\ outcome = Running
        ELSE /\ outcome.k = "ParsingError"
             /\ outcome.v.message =
                    "Can only use '" \o source.stmt \o "' inside loops."

\* C10 witness: a break inside an if inside a while has been accepted.
C10_Witness ==
    /\ source.family = "shape"
    /\ source.wrappers = <<"while", "if">>
    /\ source.stmt = "break"
    /\ pc = "resolve"
    /\ statements[1].t = "While"

\* C11: an input line of the prompt loop that the resolver rejects leaves the
\* resolver as it was before the line: the same scope stack with the same
\* declared/defined flags, the same current_function, the same current_class.
C11_RejectedLineLeavesResolver ==
    [][(pc = "run" /\ outcome'.k = "resolve_error") =>
          /\ resolver'.scopes = resolver.scopes
          /\ resolver'.current_function = resolver.current_function
          /\ resolver'.current_class = resolver.current_class]_vars

\* How many of the tokens are Eof.
EofCount(ts) == Cardinality({i \in 1..Len(ts) : ts[i].id = "Eof"})

\* C12: the tokens a scanner yields hold at most one Eof and nothing after
\* it; once the Eof is out, every further poll yields nothing; and every
\* source that does not make the scanner panic gets its Eof.
C12_SingleEofLast ==
    /\ [](EofCount(tokens) <= 1
            /\ (EofCount(tokens) = 1 => tokens[Len(tokens)].id = "Eof"))
    /\ [][EofCount(tokens) = 1 => (tokens' = tokens /\ outcome'.k = "none")]_vars
    /\ <>(pc = "done" \/ EofCount(tokens) = 1)

\* C12 witness: a source of several tokens, its Eof last, polled twice more
\* to no effect.
C12_Witness ==
    /\ Len(tokens) >= 3
    /\ tokens[Len(tokens)].id = "Eof"
    /\ idx >= Len(tokens) + 2
    /\ outcome.k = "none"

\* A source of one line with no string and no comment in it: the column of
\* a token is the index of its first character.
PlainSource ==
    \A i \in 1..Len(source.chars) : source.chars[i] \notin {"\"", "/", "\n"}

\* C13: a '.' that follows a digit and is followed by no digit is scanned
\* as a Dot token of its own.
C13_TrailingDotIsDot ==
    (pc = "scan" /\ outcome.k = "none" /\ PlainSource) =>
        \A i \in 2..Len(source.chars) :
            ( /\ source.chars[i] = "."
              /\ source.chars[i - 1] \in Digits
              /\ (i = Len(source.chars) \/ source.chars[i + 1] \notin Digits) )
            => \E j \in 1..Len(tokens) :
                    tokens[j].id = "Dot" /\ tokens[j].column = i

\* The Display texts of the tokens before the Eof, joined by single spaces.
RECURSIVE Join(_, _)
Join(ts, i) ==
    IF i > Len(ts) \/ ts[i].id = "Eof" THEN <<>>
    ELSE IF i = 1 THEN Token_chars(ts[i]) \o Join(ts, i + 1)
    ELSE <<" ">> \o Token_chars(ts[i]) \o Join(ts, i + 1)

\* scanner.into_iter().collect()
RECURSIVE collect(_, _)
collect(sc, acc) ==
    LET r == Scanner_next(sc) IN
    IF r.k = "some" THEN collect(r.sc, Append(acc, r.v))
    ELSE [k |-> r.k, v |-> acc]

\* C14: the tokens of a scanned source that has no comment, displayed,
\* joined by single spaces and scanned again, are the same kinds with the
\* same literal values.
C14_RoundTrip ==
    ( /\ pc = "scan"
      /\ outcome.k = "none"
      /\ \A i \in 1..Len(tokens) : tokens[i].id # "Comment" ) =>
        \E again \in {collect(Scanner_new(Join(tokens, 1)), <<>>)} :
            /\ again.k = "none"
            /\ Len(again.v) = Len(tokens)
            /\ \A i \in 1..Len(tokens) :
                    /\ again.v[i].id = tokens[i].id
                    /\ again.v[i].value = tokens[i].value

\* The constructs whose body is a function body.
FunctionLike ==
    {"fun", "fun_init", "lambda", "method", "init", "static", "getter", "submethod"}

\* The innermost function-like construct of wrappers, "none" when there is none.
RECURSIVE InnermostOf(_, _)
InnermostOf(wrappers, set) ==
    IF wrappers = <<>> THEN "none"
    ELSE IF wrappers[Len(wrappers)] \in set THEN wrappers[Len(wrappers)]
    ELSE InnermostOf(SubSeq(wrappers, 1, Len(wrappers) - 1), set)

ResolverRejects(message) ==
    outcome.k = "resolve_error" /\ outcome.v.message = message

\* C15: a return outside every function, method and lambda is rejected; a
\* return with a value is rejected when the innermost enclosing function is
\* the init method of a class; every other return is accepted, whatever
\* function or lambda was declared and left before it.
C15_ReturnRules ==
    (source.family = "return" /\ Done) =>
        \E fn \in {InnermostOf(source.wrappers, FunctionLike)} :
            IF fn = "none"
            THEN ResolverRejects("Cannot return from top-level code.")
            ELSE IF source.value /\ fn = "init"
            THEN ResolverRejects("Cannot return a value from an initializer.")
            ELSE outcome.k = "ok"

\* The constructs that are a class declaration around their body.
ClassLike == {"method", "init", "static", "getter", "submethod"}

C17_OwnInitializer ==
    (source.family = "selfuse" /\ Done) =>
        IF source.form = "after"
        THEN outcome.k = "ok"
        ELSE /\ ResolverRejects("Can't read local variable in its own initializer.")
             /\ interp.envs = Interpreter_new.envs
             /\ Len(interp.writer) = 1

\* C18: a lambda's body reads and assigns the global binding of a free
\* variable that names a global, wherever the lambda expression stands: the
\* programs of the capture family end successfully having printed the
\* global's value, "g" when the lambda read it and "n" when it assigned it.
C18_LambdaReadsGlobal ==
    (source.family = "capture" /\ Done) =>
        /\ outcome.k = "ok"
        /\ interp.writer = IF source.body = "read" THEN <<"g">> ELSE <<"n">>

\* C19: when a block, a loop body or a called function, method or lambda
\* body has ended, by its last statement or by return, break or continue,
\* the current environment is the one from before it and the names declared
\* inside are out of sight: the programs of the frame family end successfully
\* in the global environment having printed the global a, "g".
C19_FrameRestored ==
    (source.family = "frame" /\ Done) =>
        /\ outcome.k = "ok"
        /\ interp.writer = <<"g">>
        /\ interp.environment = interp.global

\* C20: when an input line of the prompt loop has ended in a runtime error,
\* the current environment is the global environment, whatever blocks and
\* function bodies the error came out of.
C20_GlobalAfterRuntimeError ==
    (pc = "prompt" /\ outcome.k = "error") => interp.environment = interp.global

\* The While statement a for statement is turned into: the last statement of
\* the Block when there is an initializer, the statement itself otherwise.
ForLoop(stmt) == IF stmt.t = "Block" THEN stmt.statements[2] ELSE stmt

\* C21: for (I; C; U) { B } is parsed to Block[I, While(C, Block(B followed
\* by the expression statement U))]; with C omitted the condition is the
\* literal true, with U omitted nothing is appended to the body, with I
\* omitted the result is the While statement with no Block around it.
C21_ForDesugaring ==
    (source.family = "for" /\ pc # "parse") =>
        /\ pc = "resolve"
        /\ Len(statements) = 1
        /\ IF source.initializer = "none"
           THEN statements[1].t = "While"
           ELSE /\ statements[1].t = "Block"
                /\ Len(statements[1].statements) = 2
                /\ statements[1].statements[1].t =
                       (IF source.initializer = "var" THEN "Var" ELSE "Expression")
                /\ statements[1].statements[2].t = "While"
        /\ LET loop == ForLoop(statements[1])
               body == loop.body.statements
               given == IF source.body THEN 1 ELSE 0
           IN
           /\ IF source.condition
              THEN loop.condition.t = "Binary"
              ELSE loop.condition = LiteralExpr(Boolean(TRUE))
           /\ loop.body.t = "Block"
           /\ Len(body) = given + (IF source.increment THEN 1 ELSE 0)
           /\ source.body => body[1].t = "Print"
           /\ source.increment =>
                  /\ body[Len(body)].t = "Expression"
                  /\ body[Len(body)].expr.t = "Assign"

\* C22: a member introduced by the class keyword has kind StaticMethod
\* whatever its name; a member without the keyword whose name is directly
\* followed by the body is a GetterMethod; of the others the member named
\* init is the Initializer and every other one a Method; and the kind stored
\* in the FunctionStmt agrees with the list of the class the member is in.
C22_MethodKinds ==
    (source.family = "member" /\ pc = "resolve") =>
        LET class == statements[1]
            kind == IF source.keyword THEN "StaticMethod"
                    ELSE IF ~source.parens THEN "GetterMethod"
                    ELSE IF source.name = "init" THEN "Initializer"
                    ELSE "Method"
            members == class.methods \o class.static_methods \o class.getter_methods
        IN
        /\ Len(members) = 1
        /\ members[1].kind = kind
        /\ \A i \in 1..Len(class.methods) :
               class.methods[i].kind \in {"Method", "Initializer"}
        /\ \A i \in 1..Len(class.static_methods) :
               class.static_methods[i].kind = "StaticMethod"
        /\ \A i \in 1..Len(class.getter_methods) :
               class.getter_methods[i].kind = "GetterMethod"

\* C23: the property read o.n invokes the getter n of o's class or of a class
\* up its superclass chain, with this bound to o, and its result is the value
\* also when o has a field n; with no getter the value is the field n; with no
\* field it is the method n bound to o; otherwise the read is the runtime
\* error "Undefined property.".
C23_PropertyRead ==
    (source.family = "property" /\ pc = "done") =>
        IF source.member = "getter" THEN interp.writer = <<"g">>
        ELSE IF source.super = "getter" THEN interp.writer = <<"sg">>
        ELSE IF source.field THEN interp.writer = <<"f">>
        ELSE IF source.member = "method" \/ source.super = "method"
        THEN /\ outcome.k = "ok"
             /\ interp.writer = <<"<fn n>">>
             /\ LET global == interp.envs[interp.global].values IN
                /\ global["v"].k = "Function"
                /\ interp.envs[global["v"].closure].values["this"] = global["o"]
        ELSE /\ outcome.k = "error"
             /\ outcome.v.message = "Undefined property."

\* C24: no borrow of the instance is held by the property read while the
\* body of a getter runs: this.f = v in the getter succeeds, and the value
\* written is the one read afterwards.
C24_GetterWritesThis ==
    (source.family = "getter_write" /\ pc = "done") =>
        /\ outcome.k = "ok"
        /\ interp.writer = <<"g", "w">>

\* C25: l or r yields l when l is truthy and l and r yields l when l is
\* falsy, without evaluating r; otherwise the value is that of r; the value
\* is the operand itself, not a boolean; and l is read from its lexical scope
\* also when it is a variable local to an enclosing block or function.
C25_LogicalOperands ==
    (source.family = "logical" /\ pc = "done") =>
        LET truthy == source.left = "string"
            display == CASE source.left = "string" -> "l"
                         [] source.left = "nil" -> "nil"
                         [] source.left = "false" -> "false"
            short == IF source.operator = "or" THEN truthy ELSE ~truthy
        IN
        /\ outcome.k = "ok"
        /\ interp.writer = IF short THEN <<display, "n">> ELSE <<"r", "r">>

\* C26: parse terminates on every finite token stream that ends in Eof: an
\* input that ends right after a left parenthesis, var a = ( for one, yields
\* a ParsingError and no unbounded recursion.
C26_TruncatedInput ==
    (source.family = "truncated" /\ pc # "parse") =>
        /\ pc = "done"
        /\ outcome.k = "ParsingError"

\* C27: in every accepted program each Break and Continue signal raised at
\* run time is caught by the while loop whose body lexically contains the
\* statement: none reaches LoxFunction::call (which would panic on it) or the
\* driver, the loop around a break ends after that iteration and the loop
\* around a continue goes on with the next one, an outer loop being left
\* alone.
C27_SignalsCaughtByLoop ==
    /\ outcome.k \notin {"break", "continue"}
    /\ outcome.k = "panic" => outcome.v.message # "not yet implemented: Why hit this?"
    /\ (source.family = "signal" /\ pc = "done") =>
          /\ outcome.k = "ok"
          /\ interp.writer =
                 IF source.site = "nested" THEN <<"out", "out", "2">>
                 ELSE IF source.stmt = "break" THEN <<"1">>
                 ELSE <<"2">>

\* C27 witness: a break in an if in a loop in the body of a called function
\* has ended the loop after its first iteration, and the call has returned.
C27_Witness ==
    /\ source.family = "signal"
    /\ source.site = "function"
    /\ source.stmt = "break"
    /\ source.guard = "if"
    /\ pc = "done"
    /\ outcome.k = "ok"
    /\ interp.writer = <<"1">>

\* C28: a static method does not see this or super: while its body is
\* resolved neither name is in a scope of the stack, so a this or a super in
\* a static method, of a class with a superclass too, gets no depth recorded
\* in locals.
C28_StaticSeesNoSelf ==
    (source.family = "static_self" /\ pc \notin {"parse", "resolve"}) =>
        \A key \in DOMAIN interp.locals : key.t \notin {"This", "Super"}

\* C29: for a variable reference in a static method body with recorded depth
\* d, the environment d hops up from the environment of the call exists at
\* run time and is the scope the resolver matched: a static method reads its
\* parameters and locals, and also a global variable or its own class
\* declared before the class.
C29_StaticReadsEnclosing ==
    (source.family = "static_read" /\ pc = "done") =>
        /\ outcome.k = "ok"
        /\ interp.writer = <<source.target>>

\* The nodes of the line that the resolver gives a depth: the keys it writes
\* into an empty locals table.
ResolvedKeys(rs, stmts) ==
    DOMAIN Resolver_call("resolve_stmts",
                         <<[rs EXCEPT !.locals = EmptyMap, !.err = None], stmts>>).locals

\* C30: two distinct expression nodes resolved with the same interpreter
\* never share a locals key, nodes of different lines of the prompt loop with
\* the same text at the same line and column included: no key of a node of
\* the line just resolved was in locals before the line.
C30_DistinctLocalsKeys ==
    [][(pc = "run" /\ outcome'.k \notin {"ParsingError", "resolve_error", "overflow"}) =>
          ResolvedKeys(resolver, statements') \cap DOMAIN interp.locals = {}]_vars

=============================================================================
